---- MODULE Spec2Model ----
(***************************************************************************)
(* State-machine model of the FounderHQ.ai pitch deck builder              *)
(* (apps/frontend/app/pitch-deck/page.tsx and its manual editors).         *)
(*                                                                         *)
(* Strings are sequences of lexemes: a lexeme is a TLA+ string standing    *)
(* for a run of characters that the code never splits ("\n", "<p>",        *)
(* "pie chart", a plain word).  The empty sequence is the empty string.    *)
(* String operations of the code (concatenation, join, trim, startsWith,   *)
(* slice, regular-expression tests) are computed on these sequences.       *)
(*                                                                         *)
(* React state is one variable per useState.  An async handler is split    *)
(* at each await: the part before the await is one action and puts a       *)
(* record into `pending`; the part after it is an action that takes the    *)
(* record out, with the outcome of the awaited call (success with some     *)
(* response, or failure) chosen nondeterministically.                      *)
(***************************************************************************)
EXTENDS Integers, Sequences, FiniteSets, TLC

\* ------------------------------------------------------------------
\* Bounds of the model
\* ------------------------------------------------------------------

\* Longest title, content or design (in lexemes) that an append or a save
\* of the manual editor may produce.
MaxStrLen == 4

\* Most blocks the manual editors hold at once.
MaxBlocks == 2

\* Most requests in flight at once for the handlers that have no guard.
MaxPending == 1

\* Most unguarded requests in flight at once when a click on a suggestion
\* starts a replacement.
MaxReplacements == 2

\* ------------------------------------------------------------------
\* Strings
\* ------------------------------------------------------------------

NL == "\n"

EmptyStr == << >>

\* JavaScript truthiness of a string: '' is falsy.
Truthy(s) == s # EmptyStr

\* s || d
OrElse(s, d) == IF Truthy(s) THEN s ELSE d

IsSpace(t) == t \in {"\n", " "}

RECURSIVE TrimLeft(_)
TrimLeft(s) ==
    IF s = << >> THEN << >>
    ELSE IF IsSpace(Head(s)) THEN TrimLeft(Tail(s)) ELSE s

RECURSIVE TrimRight(_)
TrimRight(s) ==
    IF s = << >> THEN << >>
    ELSE IF IsSpace(s[Len(s)]) THEN TrimRight(SubSeq(s, 1, Len(s) - 1)) ELSE s

\* String.prototype.trim
Trim(s) == TrimRight(TrimLeft(s))

\* Array.prototype.join over an array of strings
RECURSIVE Join(_, _)
Join(strs, sep) ==
    IF strs = << >> THEN << >>
    ELSE IF Len(strs) = 1 THEN strs[1]
    ELSE strs[1] \o sep \o Join(Tail(strs), sep)

Includes(s, t) == \E i \in 1..Len(s) : s[i] = t

\* ------------------------------------------------------------------
\* Blocks and slides (types/slide.ts)
\* ------------------------------------------------------------------

\* A VisualBlock payload {type, data}; NoVisual is the absent `visual`
\* field of a text block.
NoVisual == [type |-> "none", data |-> "none"]

Visual(t, d) == [type |-> t, data |-> d]

\* A TextBlock.  Position and size are layout only and are left out.
TextBlock(id, content) ==
    [type |-> "text", id |-> id, content |-> content, visual |-> NoVisual]

\* A VisualBlockContainer.
VisualBlockContainer(id, visual) ==
    [type |-> "visual", id |-> id, content |-> EmptyStr, visual |-> visual]

IsText(b) == b.type = "text"

IsVisual(b) == b.type = "visual"

\* blocks.filter(b => b.type === 'text').map(b => b.content)
TextContents(blocks) ==
    LET texts == SelectSeq(blocks, IsText)
    IN  [i \in 1..Len(texts) |-> texts[i].content]

\* blocks.filter(b => b.type === 'visual').map(b => b.visual)
VisualPayloads(blocks) ==
    LET vis == SelectSeq(blocks, IsVisual)
    IN  [i \in 1..Len(vis) |-> vis[i].visual]

\* No media URL: imageUrl / videoUrl that is '', undefined or absent.  The
\* code reads the two fields for their truthiness only.
NoUrl == ""

\* A Slide.
MkSlide(title, content, design, blocks, visuals) ==
    [title |-> title, content |-> content, design |-> design,
     blocks |-> blocks, visuals |-> visuals,
     imageUrl |-> NoUrl, videoUrl |-> NoUrl]

\* The first two of the thirteen titles of STANDARD_SLIDES: the decks of
\* the model have at most two slides.
STANDARD_SLIDES == << <<"The Problem">>, <<"Our Solution">> >>

\* STANDARD_SLIDES[index] || `Slide ${index + 1}`
SlideTitle(i) ==
    IF i \in 1..Len(STANDARD_SLIDES) THEN STANDARD_SLIDES[i]
    ELSE <<"Slide", ToString(i)>>

\* ------------------------------------------------------------------
\* Derived fields
\* ------------------------------------------------------------------

\* The paragraph unwrapping of the edit modal's Save Changes and of
\* TextBlockEditor.onUpdate: html.startsWith('<p>') && html.endsWith('</p>'),
\* inner = html.slice(3, -4), kept when inner holds no '<p>' and no '</p>'.
StripParagraph(html) ==
    IF Len(html) >= 2 /\ html[1] = "<p>" /\ html[Len(html)] = "</p>"
    THEN LET inner == SubSeq(html, 2, Len(html) - 1)
         IN  IF ~Includes(inner, "<p>") /\ ~Includes(inner, "</p>")
             THEN inner ELSE html
    ELSE html

\* The forEach of Save Changes: content += html + '\n' for a text block.
RECURSIVE SaveContentLoop(_, _)
SaveContentLoop(blocks, acc) ==
    IF blocks = << >> THEN acc
    ELSE IF IsText(Head(blocks))
         THEN SaveContentLoop(Tail(blocks),
                  acc \o StripParagraph(Head(blocks).content) \o <<NL>>)
         ELSE SaveContentLoop(Tail(blocks), acc)

\* Save Changes of the edit modal, the slide it stores.  `blocks` is always
\* an array here, so the branch `blocks && Array.isArray(blocks)` is taken
\* for the empty array as well.
SaveChangesSlide(slide) ==
    [slide EXCEPT !.content = Trim(SaveContentLoop(slide.blocks, EmptyStr)),
                  !.visuals = VisualPayloads(slide.blocks)]

\* The slide the page's ManualEditModal onSave stores, from the slide the
\* modal hands back and the title the page holds.
ManualOnSaveSlide(updatedSlide, curTitle) ==
    LET texts == TextContents(updatedSlide.blocks)
    IN  [updatedSlide EXCEPT
            !.title = IF texts # << >> /\ Truthy(texts[1])
                      THEN texts[1] ELSE curTitle,
            !.content = IF texts = << >> THEN EmptyStr
                        ELSE Join(Tail(texts), <<NL, NL>>),
            !.visuals = VisualPayloads(updatedSlide.blocks)]

\* ManualSlideEditor.handleSave, the slide handed to onSave: `visuals` is
\* the one of the slide the editor was opened on.
SlideEditorSaveSlide(slide, editedTitle, editedBlocks) ==
    [slide EXCEPT !.title = editedTitle,
                  !.content = Join(TextContents(editedBlocks), <<NL, NL>>),
                  !.blocks = editedBlocks]

\* ManualSlideEditor.handleBlockContentChange: the blocks after editing
\* block `index`.
handleBlockContentChange(prevBlocks, index, newContent) ==
    IF IsText(prevBlocks[index])
    THEN [prevBlocks EXCEPT ![index] = [prevBlocks[index] EXCEPT !.content = newContent]]
    ELSE prevBlocks

\* handleEditBlock: the slide after editing block blockIndex.
EditBlockSlide(slide, blockIndex, newContent) ==
    LET blocks == IF IsText(slide.blocks[blockIndex])
                  THEN [slide.blocks EXCEPT ![blockIndex].content = newContent]
                  ELSE slide.blocks
    IN  [slide EXCEPT !.blocks = blocks,
                      !.content = Join(TextContents(blocks), <<NL, NL>>)]

\* ------------------------------------------------------------------
\* Change tracking
\* ------------------------------------------------------------------

\* generateSlidesHash that also reads the number of visuals of each slide.
generateSlidesHash_WithVisualCount(slidesToHash) ==
    Join([i \in 1..Len(slidesToHash) |->
             slidesToHash[i].title \o <<":">> \o slidesToHash[i].content
                 \o <<":">> \o slidesToHash[i].design
                 \o (IF "visuals" \in DOMAIN slidesToHash[i]
                        /\ slidesToHash[i].visuals # << >>
                     THEN <<":", "visuals">> ELSE << >>)],
         <<"|">>)

\* generateSlidesHash that reads the title and the content only.
generateSlidesHash_WithoutDesign(slidesToHash) ==
    Join([i \in 1..Len(slidesToHash) |->
             slidesToHash[i].title \o <<":">> \o slidesToHash[i].content],
         <<"|">>)

\* generateSlidesHash
generateSlidesHash(slidesToHash) ==
    Join([i \in 1..Len(slidesToHash) |->
             slidesToHash[i].title \o <<":">> \o slidesToHash[i].content
                 \o <<":">> \o slidesToHash[i].design],
         <<"|">>)

\* ------------------------------------------------------------------
\* Suggestions
\* ------------------------------------------------------------------

\* Lexemes that the regular expressions of getVisualTypeFromSuggestion
\* match (case-insensitively, anywhere in the text).
PieLexemes == {"pie chart", "Pie Chart"}

BarLexemes == {"bar graph", "bar chart"}

LineLexemes == {"line graph", "line chart"}

ScatterLexemes == {"scatter plot", "scatterplot", "scatter chart", "scatterchart"}

TableLexemes == {"table", "notable"}

HasLexeme(s, lexemes) == \E i \in 1..Len(s) : s[i] \in lexemes

\* getVisualTypeFromSuggestion; "null" is null.
getVisualTypeFromSuggestion(suggestion) ==
    IF HasLexeme(suggestion, PieLexemes) THEN "pie"
    ELSE IF HasLexeme(suggestion, BarLexemes) THEN "bar"
    ELSE IF HasLexeme(suggestion, LineLexemes) THEN "line"
    ELSE IF HasLexeme(suggestion, ScatterLexemes) THEN "scatter"
    ELSE IF HasLexeme(suggestion, TableLexemes) THEN "table"
    ELSE "null"

\* ApplySuggestion without the visual-type branch: the suggestion's kind
\* alone picks the field.
ApplySuggestion_ByKindOnly(slide, suggestion) ==
    IF suggestion.type = "Content"
    THEN [slide EXCEPT !.content = slide.content \o <<NL>> \o suggestion.text]
    ELSE IF suggestion.type = "Design"
    THEN [slide EXCEPT !.design = slide.design \o <<NL>> \o suggestion.text]
    ELSE slide

\* ApplySuggestion that leaves the slide alone when its content already
\* ends with the suggestion's text.
ApplySuggestion_Deduplicated(slide, suggestion) ==
    IF /\ Len(slide.content) >= Len(suggestion.text)
       /\ SubSeq(slide.content, Len(slide.content) - Len(suggestion.text) + 1,
                 Len(slide.content)) = suggestion.text
    THEN slide
    ELSE IF getVisualTypeFromSuggestion(suggestion.text) # "null"
              \/ suggestion.type = "Content"
    THEN [slide EXCEPT !.content = slide.content \o <<NL>> \o suggestion.text]
    ELSE IF suggestion.type = "Design"
    THEN [slide EXCEPT !.design = slide.design \o <<NL>> \o suggestion.text]
    ELSE slide

\* ApplySuggestion that appends a Design suggestion to the content as well.
ApplySuggestion_BothFields(slide, suggestion) ==
    IF getVisualTypeFromSuggestion(suggestion.text) # "null"
    THEN [slide EXCEPT !.content = slide.content \o <<NL>> \o suggestion.text]
    ELSE IF suggestion.type = "Content"
    THEN [slide EXCEPT !.content = slide.content \o <<NL>> \o suggestion.text]
    ELSE IF suggestion.type = "Design"
    THEN [slide EXCEPT !.design = slide.design \o <<NL>> \o suggestion.text,
                       !.content = slide.content \o <<NL>> \o suggestion.text]
    ELSE slide

\* The slide after the synchronous part of handleSuggestionClick.
ApplySuggestion(slide, suggestion) ==
    IF getVisualTypeFromSuggestion(suggestion.text) # "null"
    THEN [slide EXCEPT !.content = slide.content \o <<NL>> \o suggestion.text]
    ELSE IF suggestion.type = "Content"
    THEN [slide EXCEPT !.content = slide.content \o <<NL>> \o suggestion.text]
    ELSE IF suggestion.type = "Design"
    THEN [slide EXCEPT !.design = slide.design \o <<NL>> \o suggestion.text]
    ELSE slide

\* ------------------------------------------------------------------
\* Inputs: what the user types and what the external services return
\* ------------------------------------------------------------------

\* Values typed into the Slide Content and Design textareas.
TypedStrings == { EmptyStr, <<"a">>, <<"b">> }

\* HTML that the rich-text editor of a text block reports (editor.getHTML()).
EditorHtml ==
    { <<"<p>", "a", "</p>">>, <<"<p>", "</p>">>, <<"<p>", "Our Solution", "</p>">> }

\* Arrays of slide contents that /generate-slides returns.
GeneratedDecks == { << <<"a">> >>, << <<"a">>, <<"b">> >> }

\* Arrays of strings that /generate-slides returns to handleGenerateSlides:
\* each names the slide it belongs to, or no slide at all.
GeneratedItems ==
    { << <<"The Problem", ":", "a">>, <<"Our Solution", ":", "b">> >>,
      << <<"x">>, <<"The Problem", ":", "a">>, <<"The Problem", ":", "b">>,
         <<"Our Solution", ":">> >> }

\* Contents and designs that the per-slide AI endpoints return.
GeneratedStrings == { <<"g">> }

\* Decks that /get-slides returns (data.slides, or nothing).
BackendDecks ==
    { << >>,
      << [title |-> STANDARD_SLIDES[1], content |-> <<"a">>, design |-> EmptyStr,
          blocks |-> << >>, visuals |-> << >>,
          imageUrl |-> NoUrl, videoUrl |-> NoUrl] >> }

\* Suggestion texts that /generate-suggestion returns.
SuggestionTexts == { <<"s">>, <<"pie chart">> }

\* Responses of /analyze-pitch-deck; feedback is '' when there is none.
AnalysisResponses ==
    { [score |-> 70, narrative_flow |-> "Strong", visual_design |-> "Polished",
       data_credibility |-> "High", feedback |-> <<"good">>],
      [score |-> 40, narrative_flow |-> "Weak", visual_design |-> "Basic",
       data_credibility |-> "Low", feedback |-> EmptyStr] }

\* ------------------------------------------------------------------
\* State
\* ------------------------------------------------------------------

VARIABLES
    slides,                  \* useState<Slide[]>([])
    selectedSlide,           \* useState<number | null>(null); 0 is null
    showEditModal,
    showManualEditModal,
    showAIModal,
    loading,
    error,                   \* "null" or the message
    slidesModified,
    metrics,
    aiFeedback,
    lastFeedbackSlidesHash,
    analysisLoading,
    showFeedbackModal,
    aiSuggestions,
    edBlocks,                \* ManualEditModal: useState(slide.blocks || [])
    edLayout,                \* ManualEditModal: layout
    aiLoading,               \* ManualEditModal
    aiError,                 \* ManualEditModal; "null" or the message
    pending,                 \* the awaits in flight
    last                     \* the handler step taken last (history)

pageVars == <<selectedSlide, showEditModal, showManualEditModal, showAIModal>>

loadVars == <<loading, error>>

analysisVars ==
    <<metrics, aiFeedback, lastFeedbackSlidesHash, analysisLoading, showFeedbackModal>>

editorVars == <<edBlocks, edLayout, aiLoading, aiError>>

vars ==
    <<slides, pageVars, loadVars, slidesModified, analysisVars, aiSuggestions,
      editorVars, pending, last>>

\* The metrics before any analysis, and after a failed one.
NotAnalyzed ==
    [score |-> 0, narrative_flow |-> "Not analyzed",
     visual_design |-> "Not analyzed", data_credibility |-> "Not analyzed"]

\* An await in flight.  Every kind uses the same fields:
\*   slide  the slide index the handler captured (0 when none)
\*   slot   the suggestion slot, or the stage of a two-request handler
\*   typ    'Content' | 'Design', or the caller of updateAIAnalysis
\*   text   a string the handler holds across the await; for an analysis
\*          request, the fingerprint of slidesToAnalyze when it was issued
\*   snap   the Slide[] the handler holds across the await, with the
\*          fields it reads afterwards: title, content and design
\*   alias  the positions i where snap[i] is the very object slides[i]
\*   fb     getFeedback; for a replacement request, whether an equal request
\*          was in flight when it was made
Req(kind, slide, slot, typ, text, snap, alias, fb) ==
    [kind |-> kind, slide |-> slide, slot |-> slot, typ |-> typ, text |-> text,
     snap |-> snap, alias |-> alias, fb |-> fb]

\* The fields of a held Slide[] that generateSlidesHash reads.
HashedFields(deck) ==
    [i \in 1..Len(deck) |->
        [title |-> deck[i].title, content |-> deck[i].content,
         design |-> deck[i].design]]

SimpleReq(kind, slide) == Req(kind, slide, 0, "", EmptyStr, << >>, {}, FALSE)

Step(op, info) == [op |-> op, info |-> info]

\* setSlides with a fresh object at position k: no held array shares it.
Unalias(reqs, k) == { [r EXCEPT !.alias = @ \ {k}] : r \in reqs }

\* setSlides with a new array of fresh objects.
UnaliasAll(reqs) == { [r EXCEPT !.alias = {}] : r \in reqs }

SelectedOk == selectedSlide \in 1..Len(slides)

\* The state after construction: the useState defaults, with the mount
\* effect's /get-slides request in flight.  sessionStorage is empty.
Init ==
    /\ slides = << >>
    /\ selectedSlide = 0
    /\ showEditModal = FALSE
    /\ showManualEditModal = FALSE
    /\ showAIModal = FALSE
    /\ loading = FALSE
    /\ error = "null"
    /\ slidesModified = FALSE
    /\ metrics = NotAnalyzed
    /\ aiFeedback = EmptyStr
    /\ lastFeedbackSlidesHash = EmptyStr
    /\ analysisLoading = FALSE
    /\ showFeedbackModal = FALSE
    /\ aiSuggestions = << >>
    /\ edBlocks = << >>
    /\ edLayout = << >>
    /\ aiLoading = FALSE
    /\ aiError = "null"
    /\ pending = { SimpleReq("getSlides", 0) }
    /\ last = Step("init", "")

\* Most visuals of a slide found in sessionStorage.
MaxSavedVisuals == 3

\* Decks that the load effect finds in sessionStorage: one slide, saved
\* from the manual editor with up to MaxSavedVisuals charts.
SavedDecks ==
    { << [MkSlide(STANDARD_SLIDES[1], <<"a">>, EmptyStr, << >>, << >>)
             EXCEPT !.visuals = [i \in 1..n |-> Visual("pie", "ABC")]] >> :
        n \in 0..MaxSavedVisuals }

\* The page after its first effects when sessionStorage holds a deck: the
\* load effect has stored the saved slides and their fingerprint.
InitRestored ==
    /\ slides \in SavedDecks
    /\ selectedSlide = 0
    /\ showEditModal = FALSE
    /\ showManualEditModal = FALSE
    /\ showAIModal = FALSE
    /\ loading = FALSE
    /\ error = "null"
    /\ slidesModified = FALSE
    /\ metrics = NotAnalyzed
    /\ aiFeedback = EmptyStr
    /\ lastFeedbackSlidesHash = generateSlidesHash(slides)
    /\ analysisLoading = FALSE
    /\ showFeedbackModal = FALSE
    /\ aiSuggestions = << >>
    /\ edBlocks = << >>
    /\ edLayout = << >>
    /\ aiLoading = FALSE
    /\ aiError = "null"
    /\ pending = { SimpleReq("getSlides", 0) }
    /\ last = Step("init", "")

\* ------------------------------------------------------------------
\* Page: loading and generating a deck
\* ------------------------------------------------------------------

\* The mount effect's fetch('/get-slides').then(...): setSlides(data.slides || []).
GetSlidesLoaded ==
    \E r \in pending, deck \in BackendDecks :
        /\ r.kind = "getSlides"
        /\ slides' = deck
        /\ pending' = UnaliasAll(pending \ {r})
        /\ last' = Step("getSlides", "")
        /\ UNCHANGED <<pageVars, loadVars, slidesModified, analysisVars,
                       aiSuggestions, editorVars>>

\* The page is loaded again in the same tab.  The save effect has written
\* slides, metrics and aiFeedback to sessionStorage after every change, so
\* the load effect finds them as they are now: JSON.parse(JSON.stringify(x))
\* gives back the strings and arrays of x.  savedSlides is '[]' at least,
\* which is truthy; a saved aiFeedback of '' is falsy and leaves the default
\* ''.  Every other useState starts from its default, the callbacks of the
\* old page are gone, and the mount effect requests /get-slides.
Reload ==
    /\ lastFeedbackSlidesHash' = generateSlidesHash(slides)
    /\ selectedSlide' = 0
    /\ showEditModal' = FALSE
    /\ showManualEditModal' = FALSE
    /\ showAIModal' = FALSE
    /\ loading' = FALSE
    /\ error' = "null"
    /\ slidesModified' = FALSE
    /\ analysisLoading' = FALSE
    /\ showFeedbackModal' = FALSE
    /\ aiSuggestions' = << >>
    /\ edBlocks' = << >>
    /\ edLayout' = << >>
    /\ aiLoading' = FALSE
    /\ aiError' = "null"
    /\ pending' = { SimpleReq("getSlides", 0) }
    /\ last' = Step("reload", "")
    /\ UNCHANGED <<slides, metrics, aiFeedback>>

\* The AI Generate button.
OpenAIModal ==
    /\ ~showAIModal
    /\ showAIModal' = TRUE
    /\ last' = Step("openAIModal", "")
    /\ UNCHANGED <<slides, selectedSlide, showEditModal, showManualEditModal,
                   loadVars, slidesModified, analysisVars, aiSuggestions,
                   editorVars, pending>>

\* AIGenerateModal's Generate button (disabled while loading) calls
\* handleAIGenerate, up to its await.
handleAIGenerate ==
    /\ showAIModal
    /\ ~loading
    /\ loading' = TRUE
    /\ error' = "null"
    /\ pending' = pending \cup { SimpleReq("aiGenerate", 0) }
    /\ last' = Step("handleAIGenerate", "request")
    /\ UNCHANGED <<slides, pageVars, slidesModified, analysisVars, aiSuggestions,
                   editorVars>>

\* handleAIGenerate after a successful response.
AIGenerateOk ==
    \E r \in pending, contents \in GeneratedDecks :
        /\ r.kind = "aiGenerate"
        /\ slides' = [i \in 1..Len(contents) |->
                        MkSlide(SlideTitle(i), contents[i], EmptyStr, << >>, << >>)]
        /\ slidesModified' = TRUE
        /\ showAIModal' = FALSE
        /\ loading' = FALSE
        /\ pending' = UnaliasAll(pending \ {r})
        /\ last' = Step("handleAIGenerate", "ok")
        /\ UNCHANGED <<selectedSlide, showEditModal, showManualEditModal, error,
                       analysisVars, aiSuggestions, editorVars>>

\* handleAIGenerate after a failed request.
AIGenerateFail ==
    \E r \in pending :
        /\ r.kind = "aiGenerate"
        /\ error' = "Failed to generate slides"
        /\ loading' = FALSE
        /\ pending' = pending \ {r}
        /\ last' = Step("handleAIGenerate", "failed")
        /\ UNCHANGED <<slides, pageVars, slidesModified, analysisVars,
                       aiSuggestions, editorVars>>

\* ------------------------------------------------------------------
\* Page: the edit modal
\* ------------------------------------------------------------------

\* handleEditSlide, from a slide of SlideManagement.
handleEditSlide ==
    \E index \in 1..Len(slides) :
        /\ selectedSlide' = index
        /\ showEditModal' = TRUE
        /\ last' = Step("handleEditSlide", "")
        /\ UNCHANGED <<slides, showManualEditModal, showAIModal, loadVars,
                       slidesModified, analysisVars, aiSuggestions, editorVars, pending>>

\* The files of the file input: file.type as lexemes, and the URL that
\* URL.createObjectURL gives for the file.
Files ==
    { [type |-> <<"image", "/", "png">>, url |-> "blob:1"],
      [type |-> <<"video", "/", "mp4">>, url |-> "blob:2"],
      [type |-> <<"application", "/", "pdf">>, url |-> "blob:3"],
      [type |-> EmptyStr, url |-> "blob:4"] }

\* type.startsWith(prefix)
StartsWith(type, prefix) ==
    Len(type) >= Len(prefix) /\ SubSeq(type, 1, Len(prefix)) = prefix

IsImage(file) == StartsWith(file.type, <<"image", "/">>)

IsVideo(file) == StartsWith(file.type, <<"video", "/">>)

\* FileChangeSlide that leaves the other URL as it is.
FileChangeSlide_KeepsOther(slide, file) ==
    IF IsImage(file) THEN [slide EXCEPT !.imageUrl = file.url]
    ELSE IF IsVideo(file) THEN [slide EXCEPT !.videoUrl = file.url]
    ELSE slide

\* handleFileChange: the slide at selectedSlide after the upload of `file`.
FileChangeSlide(slide, file) ==
    IF IsImage(file)
    THEN [slide EXCEPT !.imageUrl = file.url, !.videoUrl = NoUrl]
    ELSE IF IsVideo(file)
    THEN [slide EXCEPT !.videoUrl = file.url, !.imageUrl = NoUrl]
    ELSE slide

\* The edit modal's Cancel button.
CancelEdit ==
    /\ showEditModal
    /\ showEditModal' = FALSE
    /\ last' = Step("cancelEdit", "")
    /\ UNCHANGED <<slides, selectedSlide, showManualEditModal, showAIModal,
                   loadVars, slidesModified, analysisVars, aiSuggestions,
                   editorVars, pending>>

\* The edit modal is rendered and its slide exists.
EditModalOpen == showEditModal /\ SelectedOk

\* The Slide Content textarea's onChange.
ContentChange ==
    \E value \in TypedStrings :
        /\ EditModalOpen
        /\ value # slides[selectedSlide].content
        /\ slides' = [slides EXCEPT ![selectedSlide].content = value]
        /\ pending' = Unalias(pending, selectedSlide)
        /\ last' = Step("contentChange", "")
        /\ UNCHANGED <<pageVars, loadVars, slidesModified, analysisVars,
                       aiSuggestions, editorVars>>

\* handleFileChange, from the file input of the edit modal with one file
\* chosen.  An image or a video puts a fresh object at selectedSlide.
handleFileChange ==
    \E file \in Files :
        /\ EditModalOpen
        /\ slides' = [slides EXCEPT ![selectedSlide] = FileChangeSlide(@, file)]
        /\ pending' = IF IsImage(file) \/ IsVideo(file)
                      THEN Unalias(pending, selectedSlide) ELSE pending
        /\ last' = Step("handleFileChange",
                        IF IsImage(file) THEN "image"
                        ELSE IF IsVideo(file) THEN "video" ELSE "other")
        /\ UNCHANGED <<pageVars, loadVars, slidesModified, analysisVars,
                       aiSuggestions, editorVars>>

\* The Design textarea's onChange.
DesignChange ==
    \E value \in TypedStrings :
        /\ EditModalOpen
        /\ value # slides[selectedSlide].design
        /\ slides' = [slides EXCEPT ![selectedSlide].design = value]
        /\ pending' = Unalias(pending, selectedSlide)
        /\ last' = Step("designChange", "")
        /\ UNCHANGED <<pageVars, loadVars, slidesModified, analysisVars,
                       aiSuggestions, editorVars>>

\* The edit modal's Save Changes button.  Nothing follows its await of
\* the /save-slides request.
SaveChanges ==
    /\ EditModalOpen
    /\ slides' = [slides EXCEPT ![selectedSlide] = SaveChangesSlide(@)]
    /\ slidesModified' = TRUE
    /\ showEditModal' = FALSE
    /\ pending' = Unalias(pending, selectedSlide)
    /\ last' = Step("saveChanges", "")
    /\ UNCHANGED <<selectedSlide, showManualEditModal, showAIModal, loadVars,
                   analysisVars, aiSuggestions, editorVars>>

\* ------------------------------------------------------------------
\* AI analysis (updateAIAnalysis and its callers)
\* ------------------------------------------------------------------

\* hasSlidesChanged
hasSlidesChanged == generateSlidesHash(slides) # lastFeedbackSlidesHash

\* updateAIAnalysis up to its await: the request record.  `caller` names
\* the handler that awaits it.
AnalysisReq(caller, slidesToAnalyze, alias, getFeedback) ==
    Req("analysis", 0, 0, caller, generateSlidesHash(slidesToAnalyze),
        slidesToAnalyze, alias, getFeedback)

\* Whether a successful response records the feedback and the hash:
\* getFeedback && data.feedback.
RecordsFeedback(getFeedback, data) == getFeedback /\ Truthy(data.feedback)

\* handleShowAIFeedback with the test `&& aiFeedback` left out.
handleShowAIFeedback_WithoutFeedbackTest ==
    /\ ~analysisLoading
    /\ IF ~hasSlidesChanged
       THEN /\ showFeedbackModal' = TRUE
            /\ last' = Step("handleShowAIFeedback", "cached")
            /\ UNCHANGED <<analysisLoading, pending>>
       ELSE /\ analysisLoading' = TRUE
            /\ pending' = pending \cup
                   { AnalysisReq("show", HashedFields(slides), 1..Len(slides), TRUE) }
            /\ AnalysisReq("show", HashedFields(slides), 1..Len(slides), TRUE)
                   \notin pending
            /\ last' = Step("handleShowAIFeedback", "request")
            /\ UNCHANGED showFeedbackModal
    /\ UNCHANGED <<slides, pageVars, loadVars, slidesModified, metrics,
                   aiFeedback, lastFeedbackSlidesHash, aiSuggestions,
                   editorVars>>

\* The Show AI Feedback button (disabled while analysisLoading) calls
\* handleShowAIFeedback, up to its await.
handleShowAIFeedback ==
    /\ ~analysisLoading
    /\ IF ~hasSlidesChanged /\ Truthy(aiFeedback)
       THEN /\ showFeedbackModal' = TRUE
            /\ last' = Step("handleShowAIFeedback", "cached")
            /\ UNCHANGED <<analysisLoading, pending>>
       ELSE /\ analysisLoading' = TRUE
            /\ pending' = pending \cup
                   { AnalysisReq("show", HashedFields(slides), 1..Len(slides), TRUE) }
            /\ AnalysisReq("show", HashedFields(slides), 1..Len(slides), TRUE)
                   \notin pending
            /\ last' = Step("handleShowAIFeedback", "request")
            /\ UNCHANGED showFeedbackModal
    /\ UNCHANGED <<slides, pageVars, loadVars, slidesModified, metrics,
                   aiFeedback, lastFeedbackSlidesHash, aiSuggestions,
                   editorVars>>

\* The design request of handleGenerateSlides for slide k of the newSlides
\* array it holds.
DesignReq(k, newSlides, alias) ==
    Req("design", k, 0, "", EmptyStr, newSlides, alias, FALSE)

\* updateAIAnalysis after a successful response, and what its caller does
\* next: handleShowAIFeedback opens the feedback modal, the manual
\* editor's onSave does nothing more, handleGenerateSlides enters its
\* design loop and requests the design of its first slide.
AnalysisOk ==
    \E r \in pending, data \in AnalysisResponses :
        /\ r.kind = "analysis"
        /\ metrics' = [score |-> data.score,
                       narrative_flow |-> data.narrative_flow,
                       visual_design |-> data.visual_design,
                       data_credibility |-> data.data_credibility]
        /\ IF RecordsFeedback(r.fb, data)
           THEN /\ aiFeedback' = data.feedback
                /\ lastFeedbackSlidesHash' = generateSlidesHash(r.snap)
           ELSE UNCHANGED <<aiFeedback, lastFeedbackSlidesHash>>
        /\ analysisLoading' = FALSE
        /\ IF r.typ = "show"
           THEN /\ slidesModified' = FALSE
                /\ showFeedbackModal' = TRUE
           ELSE UNCHANGED <<slidesModified, showFeedbackModal>>
        /\ pending' = IF r.typ = "generateSlides"
                      THEN (pending \ {r}) \cup { DesignReq(1, r.snap, r.alias) }
                      ELSE pending \ {r}
        /\ last' = Step("updateAIAnalysis",
                        IF RecordsFeedback(r.fb, data) THEN "recorded" ELSE "ok")
        /\ UNCHANGED <<slides, pageVars, loadVars, aiSuggestions, editorVars>>

\* updateAIAnalysis after a failed request: the catch block resets the
\* metrics and rethrows; handleShowAIFeedback catches and sets the error,
\* handleGenerateSlides catches, sets the error and lowers `loading`
\* without entering its design loop, the manual editor's onSave lets the
\* rejection escape ("rejected").
AnalysisFail ==
    \E r \in pending :
        /\ r.kind = "analysis"
        /\ metrics' = NotAnalyzed
        /\ aiFeedback' = IF r.fb
                         THEN <<"Failed to generate feedback. Please try again.">>
                         ELSE aiFeedback
        /\ analysisLoading' = FALSE
        /\ error' = IF r.typ \in {"show", "generateSlides"}
                    THEN "Failed to analyze pitch deck" ELSE error
        /\ loading' = IF r.typ = "generateSlides" THEN FALSE ELSE loading
        /\ pending' = pending \ {r}
        /\ last' = Step("updateAIAnalysis",
                        IF r.typ \in {"show", "generateSlides"}
                        THEN "failed" ELSE "rejected")
        /\ UNCHANGED <<slides, pageVars, slidesModified,
                       lastFeedbackSlidesHash, showFeedbackModal, aiSuggestions,
                       editorVars>>

\* The feedback modal's Close button (disabled while analysisLoading).
CloseFeedbackModal ==
    /\ showFeedbackModal
    /\ ~analysisLoading
    /\ showFeedbackModal' = FALSE
    /\ last' = Step("closeFeedbackModal", "")
    /\ UNCHANGED <<slides, pageVars, loadVars, slidesModified, metrics,
                   aiFeedback, lastFeedbackSlidesHash, analysisLoading,
                   aiSuggestions, editorVars, pending>>

\* ------------------------------------------------------------------
\* Page: handleGenerateSlides (bulk generation with a design pass)
\* ------------------------------------------------------------------

\* The index of the first title of STANDARD_SLIDES that the item holds
\* (item.toLowerCase().includes(slideTitle.toLowerCase())), 0 when none.
ItemSlide(item) ==
    IF \E i \in 1..Len(STANDARD_SLIDES) : Includes(item, STANDARD_SLIDES[i][1])
    THEN CHOOSE i \in 1..Len(STANDARD_SLIDES) :
             /\ Includes(item, STANDARD_SLIDES[i][1])
             /\ \A j \in 1..(i - 1) : ~Includes(item, STANDARD_SLIDES[j][1])
    ELSE 0

\* item.replace(new RegExp(`^${slideTitle}:?\\s*`, 'i'), '').trim()
StripTitle(item, slideTitle) ==
    LET rest1 == IF item # << >> /\ <<Head(item)>> = slideTitle
                 THEN Tail(item) ELSE item
        rest2 == IF rest1 # item /\ rest1 # << >> /\ Head(rest1) = ":"
                 THEN Tail(rest1) ELSE rest1
    IN  Trim(rest2)

\* contentMap[slideTitle]: the stripped, non-empty items of the slide, in
\* the order of the response.
RECURSIVE ContentsOf(_, _)
ContentsOf(items, i) ==
    IF items = << >> THEN << >>
    ELSE LET content == StripTitle(Head(items), STANDARD_SLIDES[i])
         IN  (IF ItemSlide(Head(items)) = i /\ Truthy(content)
              THEN <<content>> ELSE << >>)
             \o ContentsOf(Tail(items), i)

\* newSlides without the placeholder block of a slide that got no content.
NewSlides_NoPlaceholderBlock(items) ==
    [i \in 1..Len(STANDARD_SLIDES) |->
        LET contents == ContentsOf(items, i)
        IN  MkSlide(STANDARD_SLIDES[i], Join(contents, <<NL, NL>>), EmptyStr,
                    [k \in 1..Len(contents) |->
                        TextBlock(<<"text", k>>, contents[k])],
                    << >>)]

\* newSlides: one slide per title of STANDARD_SLIDES, with one text block
\* per content, or one empty text block.  The slides carry no `visuals`.
NewSlides(items) ==
    [i \in 1..Len(STANDARD_SLIDES) |->
        LET contents == ContentsOf(items, i)
        IN  MkSlide(STANDARD_SLIDES[i], Join(contents, <<NL, NL>>), EmptyStr,
                    IF contents # << >>
                    THEN [k \in 1..Len(contents) |->
                             TextBlock(<<"text", k>>, contents[k])]
                    ELSE <<TextBlock(<<"text", 1>>, EmptyStr)>>,
                    << >>)]

\* handleGenerateSlides up to its first await.  No element of the page
\* calls it; it is offered where the other generators of the page are,
\* while `loading` is not set.
handleGenerateSlides ==
    /\ ~loading
    /\ loading' = TRUE
    /\ error' = "null"
    /\ pending' = pending \cup { SimpleReq("generateSlides", 0) }
    /\ last' = Step("handleGenerateSlides", "request")
    /\ UNCHANGED <<slides, pageVars, slidesModified, analysisVars, aiSuggestions,
                   editorVars>>

\* handleGenerateSlides after /generate-slides answered: the new deck is
\* stored and updateAIAnalysis(newSlides, true) runs up to its await.
GenerateSlidesOk ==
    \E r \in pending, items \in GeneratedItems :
        /\ r.kind = "generateSlides"
        /\ slides' = NewSlides(items)
        /\ slidesModified' = TRUE
        /\ analysisLoading' = TRUE
        /\ pending' = UnaliasAll(pending \ {r}) \cup
               { AnalysisReq("generateSlides", HashedFields(NewSlides(items)),
                             1..Len(STANDARD_SLIDES), TRUE) }
        /\ last' = Step("handleGenerateSlides", "generated")
        /\ UNCHANGED <<pageVars, loadVars, metrics, aiFeedback,
                       lastFeedbackSlidesHash, showFeedbackModal, aiSuggestions,
                       editorVars>>

\* handleGenerateSlides when /generate-slides fails.
GenerateSlidesFail ==
    \E r \in pending :
        /\ r.kind = "generateSlides"
        /\ error' = "Failed to generate slides"
        /\ loading' = FALSE
        /\ pending' = pending \ {r}
        /\ last' = Step("handleGenerateSlides", "failed")
        /\ UNCHANGED <<slides, pageVars, slidesModified, analysisVars,
                       aiSuggestions, editorVars>>

\* The end of one iteration of the design loop: the request of the next
\* slide of newSlides, or the end of the handler (finally: setLoading(false)).
NextDesign(r, reqs) ==
    IF r.slide < Len(r.snap)
    THEN (reqs \ {r}) \cup { [r EXCEPT !.slide = r.slide + 1] }
    ELSE reqs \ {r}

\* setSlides(prevSlides => prevSlides.map(s =>
\*     s.title === slide.title ? { ...s, design: designData.suggestions } : s))
DesignApplied(prevSlides, title, design) ==
    [i \in 1..Len(prevSlides) |->
        IF prevSlides[i].title = title
        THEN [prevSlides[i] EXCEPT !.design = design]
        ELSE prevSlides[i]]

\* The positions that DesignApplied gives a new object.
DesignTargets(prevSlides, title) ==
    { i \in 1..Len(prevSlides) : prevSlides[i].title = title }

\* Held arrays no longer share the slides at the positions in ks.
UnaliasSet(reqs, ks) == { [r EXCEPT !.alias = @ \ ks] : r \in reqs }

\* The design loop after an ok response for slide r.slide of newSlides.
DesignOk ==
    \E r \in pending, design \in GeneratedStrings :
        /\ r.kind = "design"
        /\ slides' = DesignApplied(slides, r.snap[r.slide].title, design)
        /\ loading' = IF r.slide < Len(r.snap) THEN loading ELSE FALSE
        /\ pending' =
               UnaliasSet(NextDesign(r, pending),
                          DesignTargets(slides, r.snap[r.slide].title))
        /\ last' = Step("handleGenerateSlides", "designApplied")
        /\ UNCHANGED <<pageVars, error, slidesModified, analysisVars,
                       aiSuggestions, editorVars>>

\* DesignFail that leaves the loop: no further design is requested.
DesignFail_LeavesLoop ==
    \E r \in pending :
        /\ r.kind = "design"
        /\ loading' = FALSE
        /\ pending' = pending \ {r}
        /\ last' = Step("handleGenerateSlides", "designFailed")
        /\ UNCHANGED <<slides, pageVars, error, slidesModified, analysisVars,
                       aiSuggestions, editorVars>>

\* The design loop after a response that is not ok, or after a fetch that
\* rejects (caught and logged inside the loop).
DesignFail ==
    \E r \in pending :
        /\ r.kind = "design"
        /\ loading' = IF r.slide < Len(r.snap) THEN loading ELSE FALSE
        /\ pending' = NextDesign(r, pending)
        /\ last' = Step("handleGenerateSlides", "designFailed")
        /\ UNCHANGED <<slides, pageVars, error, slidesModified, analysisVars,
                       aiSuggestions, editorVars>>

\* ------------------------------------------------------------------
\* AI suggestions
\* ------------------------------------------------------------------

\* A suggestion {type, text}.  forSlide is history: the slide whose
\* title, content and design the request was made with.
Suggestion(type, text, forSlide) ==
    [type |-> type, text |-> text, forSlide |-> forSlide]

\* The requests of handlers that no loading flag guards.
Unguarded(r) ==
    \/ r.kind \in {"fetchAISuggestions", "replace", "saveSlides", "export"}
    \/ r.kind = "analysis" /\ r.typ = "manualSave"

\* `pending` is a set: a request equal in every field to one in flight waits
\* until that one is answered.
Fresh(r, reqs) == r \notin reqs

\* An unguarded handler may start one more request.
MayRequest == Cardinality({ r \in pending : Unguarded(r) }) < MaxPending

\* fetchAISuggestions(slideIdx) up to its first await.  The function's
\* documented flow calls it with the slide the user selected for editing.
\* Outside 0 <= slideIdx < slides.length it does nothing.
fetchAISuggestions ==
    /\ showEditModal
    /\ selectedSlide # 0
    /\ MayRequest
    /\ Fresh(Req("fetchAISuggestions", selectedSlide, 1, "Content",
                 EmptyStr, << >>, {}, FALSE), pending)
    /\ pending' = IF SelectedOk
                  THEN pending \cup
                         { Req("fetchAISuggestions", selectedSlide, 1, "Content",
                               EmptyStr, << >>, {}, FALSE) }
                  ELSE pending
    /\ last' = Step("fetchAISuggestions", IF SelectedOk THEN "request" ELSE "none")
    /\ UNCHANGED <<slides, pageVars, loadVars, slidesModified, analysisVars,
                   aiSuggestions, editorVars>>

\* fetchAISuggestions after the Content suggestion arrived: the Design
\* request follows.
FetchContentOk ==
    \E r \in pending, text \in SuggestionTexts :
        /\ r.kind = "fetchAISuggestions"
        /\ r.slot = 1
        /\ Fresh([r EXCEPT !.slot = 2, !.typ = "Design", !.text = text], pending)
        /\ pending' = (pending \ {r}) \cup
               { [r EXCEPT !.slot = 2, !.typ = "Design", !.text = text] }
        /\ last' = Step("fetchAISuggestions", "content")
        /\ UNCHANGED <<slides, pageVars, loadVars, slidesModified, analysisVars,
                       aiSuggestions, editorVars>>

\* fetchAISuggestions after the Design suggestion arrived: setAiSuggestions.
FetchDesignOk ==
    \E r \in pending, text \in SuggestionTexts :
        /\ r.kind = "fetchAISuggestions"
        /\ r.slot = 2
        /\ aiSuggestions' = << Suggestion("Content", r.text, r.slide),
                               Suggestion("Design", text, r.slide) >>
        /\ pending' = pending \ {r}
        /\ last' = Step("fetchAISuggestions", "ok")
        /\ UNCHANGED <<slides, pageVars, loadVars, slidesModified, analysisVars,
                       editorVars>>

\* FetchSuggestionsFail with the suggestions collected so far stored
\* before the error leaves the function.
FetchSuggestionsFail_StoresCollected ==
    \E r \in pending :
        /\ r.kind = "fetchAISuggestions"
        /\ aiSuggestions' = IF r.slot = 1 THEN << >>
                            ELSE << Suggestion("Content", r.text, r.slide) >>
        /\ pending' = pending \ {r}
        /\ last' = Step("fetchAISuggestions",
                        IF r.slot = 1 THEN "contentFailed" ELSE "designFailed")
        /\ UNCHANGED <<slides, pageVars, loadVars, slidesModified, analysisVars,
                       editorVars>>

\* fetchAISuggestions when either fetchAISuggestion throws: the function
\* has no catch, its promise rejects.
FetchSuggestionsFail ==
    \E r \in pending :
        /\ r.kind = "fetchAISuggestions"
        /\ pending' = pending \ {r}
        /\ last' = Step("fetchAISuggestions",
                        IF r.slot = 1 THEN "contentFailed" ELSE "designFailed")
        /\ UNCHANGED <<slides, pageVars, loadVars, slidesModified, analysisVars,
                       aiSuggestions, editorVars>>

\* handleSuggestionClick may start one more replacement: fewer than
\* MaxReplacements unguarded requests are in flight.
MayReplace ==
    Cardinality({ r \in pending : Unguarded(r) }) < MaxReplacements

\* The replacement request of a click.  Two clicks on one slot give two
\* requests of the same kind for the same slot; `fb` tells the later from
\* the earlier one while both are in flight.
ReplaceReq(slideIdx, idx, suggestion, reqs) ==
    Req("replace", slideIdx, idx, suggestion.type, EmptyStr, << >>, {},
        \E r \in reqs : r.kind = "replace" /\ r.slide = slideIdx /\ r.slot = idx)

\* handleSuggestionClick writes slide.content / slide.design on the object
\* held by the `slides` state before it copies it: every array that still
\* holds this object sees the write.
MutateAliased(reqs, k, suggestion) ==
    { IF k \in r.alias
      THEN [r EXCEPT !.snap[k] = ApplySuggestion(@, suggestion)]
      ELSE r : r \in reqs }

\* The text a click appends stays within the model's string bound.
FitsAppend(slide, suggestion) ==
    /\ Len(ApplySuggestion(slide, suggestion).content) <= MaxStrLen
    /\ Len(ApplySuggestion(slide, suggestion).design) <= MaxStrLen

\* A suggestion button of the edit modal calls handleSuggestionClick(s, i),
\* up to its await of the replacement.
handleSuggestionClick ==
    \E idx \in 1..Len(aiSuggestions) :
        LET suggestion == aiSuggestions[idx]
            visual == getVisualTypeFromSuggestion(suggestion.text) # "null"
        IN  /\ EditModalOpen
            /\ MayReplace
            /\ Fresh(ReplaceReq(selectedSlide, idx, suggestion, pending), pending)
            /\ FitsAppend(slides[selectedSlide], suggestion)
            /\ slides' = [slides EXCEPT
                             ![selectedSlide] = ApplySuggestion(@, suggestion)]
            /\ slidesModified' = TRUE
            /\ pending' =
                   Unalias(MutateAliased(pending, selectedSlide, suggestion),
                           selectedSlide)
                   \cup { ReplaceReq(selectedSlide, idx, suggestion, pending) }
            /\ last' = Step("handleSuggestionClick",
                            IF visual THEN "visual" ELSE suggestion.type)
            /\ UNCHANGED <<pageVars, loadVars, analysisVars, aiSuggestions,
                           editorVars>>

\* ReplacementOk that stores the new suggestion in every slot of the list.
ReplacementOk_EverySlot ==
    \E r \in pending, text \in SuggestionTexts :
        /\ r.kind = "replace"
        /\ aiSuggestions' =
               [i \in 1..Len(aiSuggestions) |-> Suggestion(r.typ, text, r.slide)]
        /\ pending' = pending \ {r}
        /\ last' = Step("handleSuggestionClick",
                        IF r.typ = "Content" THEN "replacedContent"
                        ELSE "replacedDesign")
        /\ UNCHANGED <<slides, pageVars, loadVars, slidesModified, analysisVars,
                       editorVars>>

\* handleSuggestionClick after the replacement arrived:
\* setAiSuggestions(prev => prev.map((s, i) => i === idx ? newSuggestion : s)).
ReplacementOk ==
    \E r \in pending, text \in SuggestionTexts :
        /\ r.kind = "replace"
        /\ aiSuggestions' =
               [i \in 1..Len(aiSuggestions) |->
                   IF i = r.slot THEN Suggestion(r.typ, text, r.slide)
                   ELSE aiSuggestions[i]]
        /\ pending' = pending \ {r}
        /\ last' = Step("handleSuggestionClick",
                        IF r.typ = "Content" THEN "replacedContent"
                        ELSE "replacedDesign")
        /\ UNCHANGED <<slides, pageVars, loadVars, slidesModified, analysisVars,
                       editorVars>>

\* handleSuggestionClick when the replacement request fails: the handler
\* has no catch.
ReplacementFail ==
    \E r \in pending :
        /\ r.kind = "replace"
        /\ pending' = pending \ {r}
        /\ last' = Step("handleSuggestionClick", "replaceFailed")
        /\ UNCHANGED <<slides, pageVars, loadVars, slidesModified, analysisVars,
                       aiSuggestions, editorVars>>

\* ------------------------------------------------------------------
\* Page: the AI actions of the edit modal
\* ------------------------------------------------------------------

\* The Generate Content button (disabled while loading), up to its first
\* await.  The handler keeps the selectedSlide of the click.
GenerateContentClick ==
    /\ EditModalOpen
    /\ ~loading
    /\ loading' = TRUE
    /\ error' = "null"
    /\ pending' = pending \cup
           { Req("generateContent", selectedSlide, 1, "", EmptyStr, << >>, {}, FALSE) }
    /\ last' = Step("generateContent", "request")
    /\ UNCHANGED <<slides, pageVars, slidesModified, analysisVars, aiSuggestions,
                   editorVars>>

\* Generate Content after the content arrived: the design request follows.
GenerateContentOk ==
    \E r \in pending, content \in GeneratedStrings :
        /\ r.kind = "generateContent"
        /\ r.slot = 1
        /\ pending' = (pending \ {r}) \cup { [r EXCEPT !.slot = 2, !.text = content] }
        /\ last' = Step("generateContent", "content")
        /\ UNCHANGED <<slides, pageVars, loadVars, slidesModified, analysisVars,
                       aiSuggestions, editorVars>>

\* Generate Content after the design response: design is '' unless the
\* response is ok.  The slide of the click gets the content and the design.
\* The slide of the click is still there: while `loading` is set no other
\* generation replaces the deck.
GenerateContentDone ==
    \E r \in pending, design \in GeneratedStrings \cup {EmptyStr} :
        /\ r.kind = "generateContent"
        /\ r.slot = 2
        /\ r.slide \in 1..Len(slides)
        /\ slides' = [slides EXCEPT ![r.slide].content = r.text,
                                    ![r.slide].design = design]
        /\ slidesModified' = TRUE
        /\ loading' = FALSE
        /\ pending' = Unalias(pending \ {r}, r.slide)
        /\ last' = Step("generateContent", "ok")
        /\ UNCHANGED <<pageVars, error, analysisVars, aiSuggestions, editorVars>>

\* Generate Content when the content response is not ok or a fetch rejects.
GenerateContentFail ==
    \E r \in pending :
        /\ r.kind = "generateContent"
        /\ error' = "Failed to generate content"
        /\ loading' = FALSE
        /\ pending' = pending \ {r}
        /\ last' = Step("generateContent", "failed")
        /\ UNCHANGED <<slides, pageVars, slidesModified, analysisVars,
                       aiSuggestions, editorVars>>

\* The three buttons that send the slide's content to one endpoint and
\* store the returned content.
ContentActions == {"optimizeForInvestors", "addDataVisualization", "improveMessaging"}

\* Optimize for Investors / Add Data Visualization / Improve Messaging
\* (disabled while loading), up to the await.
ContentActionClick ==
    \E action \in ContentActions :
        /\ EditModalOpen
        /\ ~loading
        /\ loading' = TRUE
        /\ error' = "null"
        /\ pending' = pending \cup
               { Req("contentAction", selectedSlide, 0, action, EmptyStr, << >>, {}, FALSE) }
        /\ last' = Step(action, "request")
        /\ UNCHANGED <<slides, pageVars, slidesModified, analysisVars,
                       aiSuggestions, editorVars>>

\* The same handlers after a successful response; the slide of the click
\* is still there.
ContentActionOk ==
    \E r \in pending, content \in GeneratedStrings :
        /\ r.kind = "contentAction"
        /\ r.slide \in 1..Len(slides)
        /\ slides' = [slides EXCEPT ![r.slide].content = content]
        /\ slidesModified' = TRUE
        /\ loading' = FALSE
        /\ pending' = Unalias(pending \ {r}, r.slide)
        /\ last' = Step(r.typ, "ok")
        /\ UNCHANGED <<pageVars, error, analysisVars, aiSuggestions, editorVars>>

\* The same handlers after a failed request.
ContentActionFail ==
    \E r \in pending :
        /\ r.kind = "contentAction"
        /\ error' = "Failed"
        /\ loading' = FALSE
        /\ pending' = pending \ {r}
        /\ last' = Step(r.typ, "failed")
        /\ UNCHANGED <<slides, pageVars, slidesModified, analysisVars,
                       aiSuggestions, editorVars>>

\* ------------------------------------------------------------------
\* ManualEditModal
\* ------------------------------------------------------------------

\* Block ids.  `text-<random>` is <<"text", n>> with n the least number no
\* text block of the list carries; `visual-<i>` is <<"visual", i>>;
\* `visual-<random>` is <<"visualr", n>>.
IdsOf(blocks) == { blocks[i].id : i \in 1..Len(blocks) }

FreshId(prefix, blocks) ==
    <<prefix, CHOOSE n \in 1..(Len(blocks) + 1) :
                  /\ <<prefix, n>> \notin IdsOf(blocks)
                  /\ \A m \in 1..(n - 1) : <<prefix, m>> \in IdsOf(blocks)>>

\* The blocks of the `slide` prop the page hands to ManualEditModal: a text
\* block with the title, a text block with the content when it is not '',
\* and one visual block per entry of slide.visuals.
EditorSlideBlocks(slide) ==
    <<TextBlock(<<"text", 1>>, slide.title)>>
    \o (IF Truthy(slide.content)
        THEN <<TextBlock(<<"text", 2>>, slide.content)>> ELSE << >>)
    \o [i \in 1..Len(slide.visuals) |->
           VisualBlockContainer(<<"visual", i - 1>>, slide.visuals[i])]

\* y: Infinity of the layout entry of an added block: below every entry.
Infinity == 1000000

\* A layout entry of react-grid-layout: the block's id, the cell of its
\* top left corner in the grid, and its spans.
LayoutEntry(id, x, y) ==
    [i |-> id, x |-> x, y |-> y, w |-> 6, h |-> 4, minW |-> 3, minH |-> 2]

\* getDefaultLayout that steps one column per block.
getDefaultLayout_NarrowColumns(blocks) ==
    [k \in 1..Len(blocks) |->
        LayoutEntry(blocks[k].id, ((k - 1) % 2) * 3, ((k - 1) \div 2) * 4)]

\* getDefaultLayout: one layout entry per block, in block order; the
\* block at index i (from 0) is at x = (i % 2) * 6, y = floor(i / 2) * 4.
getDefaultLayout(blocks) ==
    [k \in 1..Len(blocks) |->
        LayoutEntry(blocks[k].id, ((k - 1) % 2) * 6, ((k - 1) \div 2) * 4)]

\* The preview's Edit button: setShowManualEditModal(true); the modal
\* mounts with useState(slide.blocks || []).
OpenManualEdit ==
    /\ EditModalOpen
    /\ ~showManualEditModal
    /\ showManualEditModal' = TRUE
    /\ edBlocks' = EditorSlideBlocks(slides[selectedSlide])
    /\ edLayout' = getDefaultLayout(EditorSlideBlocks(slides[selectedSlide]))
    /\ aiLoading' = FALSE
    /\ aiError' = "null"
    /\ last' = Step("openManualEdit", "")
    /\ UNCHANGED <<slides, selectedSlide, showEditModal, showAIModal, loadVars,
                   slidesModified, analysisVars, aiSuggestions,
                   pending>>

\* The modal is rendered.
ManualOpen == showManualEditModal /\ SelectedOk

\* The modal unmounts: the AI handlers of this instance that are still
\* waiting will set the state of a component that is gone (fb: the
\* instance is mounted).
Unmounted(reqs) ==
    { IF r.kind = "editorAI" THEN [r EXCEPT !.fb = FALSE] ELSE r : r \in reqs }

\* onClose; the modal unmounts and its state is gone.
CloseManualEdit ==
    /\ ManualOpen
    /\ showManualEditModal' = FALSE
    /\ edBlocks' = << >>
    /\ edLayout' = << >>
    /\ aiLoading' = FALSE
    /\ aiError' = "null"
    /\ pending' = Unmounted(pending)
    /\ last' = Step("closeManualEdit", "")
    /\ UNCHANGED <<slides, selectedSlide, showEditModal, showAIModal, loadVars,
                   slidesModified, analysisVars, aiSuggestions>>

\* ManualSlideEditor.handleAddTextBlock: the blocks after Add Text Block.
handleAddTextBlock(editedBlocks) ==
    Append(editedBlocks, TextBlock(FreshId("text", editedBlocks), EmptyStr))

\* handleAddText
handleAddText ==
    /\ ManualOpen
    /\ Len(edBlocks) < MaxBlocks
    /\ edBlocks' = Append(edBlocks,
                          TextBlock(FreshId("text", edBlocks), <<"New text block">>))
    /\ edLayout' = Append(edLayout,
                          LayoutEntry(FreshId("text", edBlocks), 0, Infinity))
    /\ last' = Step("handleAddText", "")
    /\ UNCHANGED <<aiLoading, aiError>>
    /\ UNCHANGED <<slides, pageVars, loadVars, slidesModified, analysisVars,
                   aiSuggestions, pending>>

\* handleAddVisual
handleAddVisual ==
    /\ ManualOpen
    /\ Len(edBlocks) < MaxBlocks
    /\ edBlocks' = Append(edBlocks,
                          VisualBlockContainer(FreshId("visualr", edBlocks),
                                               Visual("pie", "ABC")))
    /\ edLayout' = Append(edLayout,
                          LayoutEntry(FreshId("visualr", edBlocks), 0, Infinity))
    /\ last' = Step("handleAddVisual", "")
    /\ UNCHANGED <<aiLoading, aiError>>
    /\ UNCHANGED <<slides, pageVars, loadVars, slidesModified, analysisVars,
                   aiSuggestions, pending>>

\* RemoveBlock that drops the last block when no block has the id.
RemoveBlock_DropsLastWhenAbsent(blocks, id) ==
    IF \E i \in 1..Len(blocks) : blocks[i].id = id
    THEN SelectSeq(blocks, LAMBDA b : b.id # id)
    ELSE SubSeq(blocks, 1, Len(blocks) - 1)

\* blocks.filter(b => b.id !== id)
RemoveBlock(blocks, id) == SelectSeq(blocks, LAMBDA b : b.id # id)

\* layout.filter(l => l.i !== id)
RemoveLayout(layout, id) == SelectSeq(layout, LAMBDA l : l.i # id)

\* handleRemoveBlock, from the Remove button of a block.
handleRemoveBlock ==
    \E idx \in 1..Len(edBlocks) :
        /\ ManualOpen
        /\ edBlocks' = RemoveBlock(edBlocks, edBlocks[idx].id)
        /\ edLayout' = RemoveLayout(edLayout, edBlocks[idx].id)
        /\ last' = Step("handleRemoveBlock", "")
        /\ UNCHANGED <<aiLoading, aiError>>
        /\ UNCHANGED <<slides, pageVars, loadVars, slidesModified, analysisVars,
                       aiSuggestions, pending>>

\* TextChange that writes the content into every text block.
TextChange_EveryTextBlock(blocks, idx, newContent) ==
    [i \in 1..Len(blocks) |->
        IF IsText(blocks[i]) /\ IsText(blocks[idx])
        THEN [blocks[i] EXCEPT !.content = newContent]
        ELSE blocks[i]]

\* handleTextChange(idx, newContent)
TextChange(blocks, idx, newContent) ==
    [i \in 1..Len(blocks) |->
        IF i = idx /\ IsText(blocks[i])
        THEN [blocks[i] EXCEPT !.content = newContent]
        ELSE blocks[i]]

\* TextBlockEditor.onUpdate of a text block: the editor's HTML, unwrapped,
\* goes to handleTextChange.
handleTextChange ==
    \E idx \in 1..Len(edBlocks), html \in EditorHtml :
        /\ ManualOpen
        /\ IsText(edBlocks[idx])
        /\ edBlocks[idx].content # StripParagraph(html)
        /\ edBlocks' = TextChange(edBlocks, idx, StripParagraph(html))
        /\ last' = Step("handleTextChange", "")
        /\ UNCHANGED <<edLayout, aiLoading, aiError>>
        /\ UNCHANGED <<slides, pageVars, loadVars, slidesModified, analysisVars,
                       aiSuggestions, pending>>

\* The AI buttons of the manual editor: handleGenerateContent,
\* handleOptimizeForInvestors, handleImproveMessaging and
\* handleAddDataVisualization.
EditorAIActions ==
    {"handleGenerateContent", "handleOptimizeForInvestors",
     "handleImproveMessaging", "handleAddDataVisualization"}

\* The message of the Error each handler throws on a response that is not ok.
EditorAIMessage(action) ==
    CASE action = "handleGenerateContent" -> "Failed to generate content"
      [] action = "handleOptimizeForInvestors" -> "Failed to optimize content"
      [] action = "handleImproveMessaging" -> "Failed to improve messaging"
      [] OTHER -> "Failed to add data visualization"

\* An AI button of the manual editor (disabled while aiLoading), up to
\* the handler's await.
EditorAIClick ==
    \E action \in EditorAIActions :
        /\ ManualOpen
        /\ ~aiLoading
        /\ Fresh(Req("editorAI", 0, 0, action, EmptyStr, << >>, {}, TRUE), pending)
        /\ aiLoading' = TRUE
        /\ aiError' = "null"
        /\ pending' = pending \cup
               { Req("editorAI", 0, 0, action, EmptyStr, << >>, {}, TRUE) }
        /\ last' = Step(action, "request")
        /\ UNCHANGED <<slides, pageVars, loadVars, slidesModified, analysisVars,
                       aiSuggestions, edBlocks, edLayout>>

\* setBlocks(blocks => blocks.map(b =>
\*     b.type === 'text' ? { ...b, content: data.content } : b))
AllTextContent(blocks, content) ==
    [i \in 1..Len(blocks) |->
        IF IsText(blocks[i]) THEN [blocks[i] EXCEPT !.content = content]
        ELSE blocks[i]]

\* The blocks after a successful answer to the handler `action`.  The
\* visual block that handleAddDataVisualization appends gets no layout entry.
EditorAIBlocks(action, blocks, content) ==
    IF action = "handleAddDataVisualization"
    THEN Append(blocks, VisualBlockContainer(FreshId("visualt", blocks),
                                             Visual("pie", "data")))
    ELSE AllTextContent(blocks, content)

\* EditorAIFail that leaves aiLoading set.
EditorAIFail_KeepsLoading ==
    \E r \in pending :
        /\ r.kind = "editorAI"
        /\ aiError' = IF r.fb THEN EditorAIMessage(r.typ) ELSE aiError
        /\ pending' = pending \ {r}
        /\ last' = Step(r.typ, "failed")
        /\ UNCHANGED <<slides, pageVars, loadVars, slidesModified, analysisVars,
                       aiSuggestions, edBlocks, edLayout, aiLoading>>

\* An AI handler of the manual editor after a failed request; its
\* component may be gone.
EditorAIFail ==
    \E r \in pending :
        /\ r.kind = "editorAI"
        /\ aiError' = IF r.fb THEN EditorAIMessage(r.typ) ELSE aiError
        /\ aiLoading' = IF r.fb THEN FALSE ELSE aiLoading
        /\ pending' = pending \ {r}
        /\ last' = Step(r.typ, "failed")
        /\ UNCHANGED <<slides, pageVars, loadVars, slidesModified, analysisVars,
                       aiSuggestions, edBlocks, edLayout>>

\* An AI handler of the manual editor after a successful response; its
\* component may be gone.  The appended visual block stays within the
\* model's bound on blocks.
EditorAIOk ==
    \E r \in pending, content \in GeneratedStrings :
        /\ r.kind = "editorAI"
        /\ (r.fb /\ r.typ = "handleAddDataVisualization") =>
               Len(edBlocks) < MaxBlocks
        /\ edBlocks' = IF r.fb THEN EditorAIBlocks(r.typ, edBlocks, content)
                       ELSE edBlocks
        /\ aiLoading' = IF r.fb THEN FALSE ELSE aiLoading
        /\ pending' = pending \ {r}
        /\ last' = Step(r.typ, "ok")
        /\ UNCHANGED <<slides, pageVars, loadVars, slidesModified, analysisVars,
                       aiSuggestions, edLayout, aiError>>

\* The modal's Save Changes: onSave({...slide, blocks, theme}) and the
\* page's onSave up to its await of /save-slides.  The array it holds is
\* the one it stored with setSlides.
ManualSave ==
    /\ ManualOpen
    /\ MayRequest
    /\ LET updatedSlide == [slides[selectedSlide] EXCEPT !.blocks = edBlocks]
           updatedSlides ==
               [slides EXCEPT ![selectedSlide] =
                   ManualOnSaveSlide(updatedSlide, slides[selectedSlide].title)]
       IN  /\ Len(updatedSlides[selectedSlide].title) <= MaxStrLen
           /\ Len(updatedSlides[selectedSlide].content) <= MaxStrLen
           /\ Fresh(Req("saveSlides", selectedSlide, 0, "manualSave", EmptyStr,
                        HashedFields(updatedSlides), 1..Len(updatedSlides),
                        FALSE), Unalias(pending, selectedSlide))
           /\ slides' = updatedSlides
           /\ pending' = Unmounted(Unalias(pending, selectedSlide)) \cup
                  { Req("saveSlides", selectedSlide, 0, "manualSave", EmptyStr,
                        HashedFields(updatedSlides), 1..Len(updatedSlides),
                        FALSE) }
    /\ slidesModified' = TRUE
    /\ showManualEditModal' = FALSE
    /\ edBlocks' = << >>
    /\ edLayout' = << >>
    /\ aiLoading' = FALSE
    /\ aiError' = "null"
    /\ last' = Step("manualSave", "")
    /\ UNCHANGED <<selectedSlide, showEditModal, showAIModal, loadVars,
                   analysisVars, aiSuggestions>>

\* onSave after /save-slides answered: updateAIAnalysis(updatedSlides, true)
\* up to its await.
ManualSaveStored ==
    \E r \in pending :
        /\ r.kind = "saveSlides"
        /\ Fresh(AnalysisReq("manualSave", r.snap, r.alias, TRUE), pending)
        /\ analysisLoading' = TRUE
        /\ pending' = (pending \ {r}) \cup
               { AnalysisReq("manualSave", r.snap, r.alias, TRUE) }
        /\ last' = Step("manualSave", "stored")
        /\ UNCHANGED <<slides, pageVars, loadVars, slidesModified, metrics,
                       aiFeedback, lastFeedbackSlidesHash, showFeedbackModal,
                       aiSuggestions, editorVars>>

\* onSave when the /save-slides request rejects: no analysis is requested.
ManualSaveRejected ==
    \E r \in pending :
        /\ r.kind = "saveSlides"
        /\ pending' = pending \ {r}
        /\ last' = Step("manualSave", "rejected")
        /\ UNCHANGED <<slides, pageVars, loadVars, slidesModified, analysisVars,
                       aiSuggestions, editorVars>>

\* ------------------------------------------------------------------
\* Page: export
\* ------------------------------------------------------------------

\* The export formats of the two Export buttons.
ExportTypes == {"pdf", "ppt"}

\* slides.map(s => ({ title: s.title, content: s.content || '' }))
ExportPayload(deck) ==
    [i \in 1..Len(deck) |->
        [title |-> deck[i].title,
         content |-> IF Truthy(deck[i].content) THEN deck[i].content
                     ELSE EmptyStr]]

\* handleExport(type) up to its await: without slides it sets the error
\* and returns; else it posts the payload to /export-pdf or /export-ppt.
handleExport ==
    \E type \in ExportTypes :
        /\ IF slides = << >>
           THEN /\ error' = "No slides have been generated yet."
                /\ pending' = pending
                /\ last' = Step("handleExport", "noSlides")
           ELSE /\ MayRequest
                /\ Fresh(Req("export", 0, 0, type, EmptyStr, ExportPayload(slides),
                             {}, FALSE), pending)
                /\ error' = "null"
                /\ pending' = pending \cup
                       { Req("export", 0, 0, type, EmptyStr, ExportPayload(slides),
                             {}, FALSE) }
                /\ last' = Step("handleExport", "request")
        /\ UNCHANGED <<slides, pageVars, loading, slidesModified, analysisVars,
                       aiSuggestions, editorVars>>

\* handleExport after a response that is ok: the file is downloaded.
ExportOk ==
    \E r \in pending :
        /\ r.kind = "export"
        /\ pending' = pending \ {r}
        /\ last' = Step("handleExport", "downloaded")
        /\ UNCHANGED <<slides, pageVars, loadVars, slidesModified, analysisVars,
                       aiSuggestions, editorVars>>

\* handleExport after a response that is not ok, or a rejected request.
ExportFail ==
    \E r \in pending :
        /\ r.kind = "export"
        /\ error' = "Export failed"
        /\ pending' = pending \ {r}
        /\ last' = Step("handleExport", "failed")
        /\ UNCHANGED <<slides, pageVars, loading, slidesModified, analysisVars,
                       aiSuggestions, editorVars>>

\* ------------------------------------------------------------------
\* Specifications
\* ------------------------------------------------------------------

\* Generating a deck, the edit modal with its AI actions, and saving a
\* slide from it; the deck is the generated one (the answer to /get-slides
\* is still outstanding).
NextGenerate ==
    \/ OpenAIModal
    \/ handleAIGenerate
    \/ AIGenerateOk
    \/ AIGenerateFail
    \/ handleEditSlide
    \/ CancelEdit
    \/ ContentChange
    \/ DesignChange
    \/ SaveChanges
    \/ GenerateContentClick
    \/ GenerateContentOk
    \/ GenerateContentDone
    \/ GenerateContentFail
    \/ ContentActionClick
    \/ ContentActionOk
    \/ ContentActionFail

SpecGenerate == Init /\ [][NextGenerate]_vars

\* Editing a slide: the edit modal and the manual editor, up to the
\* analysis that the manual editor's save requests (its answer is still
\* outstanding).
NextEdit ==
    \/ GetSlidesLoaded
    \/ handleEditSlide
    \/ CancelEdit
    \/ ContentChange
    \/ SaveChanges
    \/ OpenManualEdit
    \/ CloseManualEdit
    \/ handleAddVisual
    \/ handleTextChange
    \/ ManualSave
    \/ ManualSaveStored
    \/ ManualSaveRejected

SpecEdit == Init /\ [][NextEdit]_vars

\* The analysis and its change tracking, with the edits of the edit modal
\* and a reload of the page.
NextAnalysis ==
    \/ GetSlidesLoaded
    \/ Reload
    \/ handleEditSlide
    \/ CancelEdit
    \/ ContentChange
    \/ DesignChange
    \/ handleShowAIFeedback
    \/ AnalysisOk
    \/ AnalysisFail
    \/ CloseFeedbackModal

SpecAnalysis == Init /\ [][NextAnalysis]_vars

\* An analysis in flight while the slide is edited and suggestions are
\* applied; the answers to the replacement requests are still outstanding.
NextInFlight ==
    \/ GetSlidesLoaded
    \/ handleEditSlide
    \/ ContentChange
    \/ fetchAISuggestions
    \/ FetchContentOk
    \/ FetchDesignOk
    \/ handleSuggestionClick
    \/ handleShowAIFeedback
    \/ AnalysisOk

SpecInFlight == Init /\ [][NextInFlight]_vars

\* The suggestions of the edit modal, with the edits of its textareas.
NextSuggest ==
    \/ GetSlidesLoaded
    \/ handleEditSlide
    \/ CancelEdit
    \/ ContentChange
    \/ DesignChange
    \/ fetchAISuggestions
    \/ FetchContentOk
    \/ FetchDesignOk
    \/ FetchSuggestionsFail
    \/ handleSuggestionClick
    \/ ReplacementOk
    \/ ReplacementFail

SpecSuggest == Init /\ [][NextSuggest]_vars

\* The suggestions of the edit modal on a generated deck of several slides.
NextSlides ==
    \/ OpenAIModal
    \/ handleAIGenerate
    \/ AIGenerateOk
    \/ AIGenerateFail
    \/ handleEditSlide
    \/ CancelEdit
    \/ fetchAISuggestions
    \/ FetchContentOk
    \/ FetchDesignOk
    \/ FetchSuggestionsFail
    \/ handleSuggestionClick
    \/ ReplacementOk
    \/ ReplacementFail

SpecSlides == Init /\ [][NextSlides]_vars

\* The bulk generation with its analysis and its design pass, while the
\* user edits the design of the slides; the answer to /get-slides is
\* outstanding.
NextBulk ==
    \/ handleGenerateSlides
    \/ GenerateSlidesOk
    \/ GenerateSlidesFail
    \/ AnalysisOk
    \/ AnalysisFail
    \/ DesignOk
    \/ DesignFail
    \/ handleEditSlide
    \/ DesignChange

SpecBulk == Init /\ [][NextBulk]_vars

\* The design pass of the bulk generation while the user edits the title
\* and the text of a slide in the manual editor; the answers to /get-slides
\* and /save-slides are outstanding.
NextBulkEdit ==
    \/ handleGenerateSlides
    \/ GenerateSlidesOk
    \/ AnalysisOk
    \/ DesignOk
    \/ handleEditSlide
    \/ OpenManualEdit
    \/ handleTextChange
    \/ ManualSave

SpecBulkEdit == Init /\ [][NextBulkEdit]_vars

\* The block list and the layout of the manual editor: blocks are added,
\* removed and edited, by hand and by the Add Data Visualization button.
NextBlocks ==
    \/ GetSlidesLoaded
    \/ handleEditSlide
    \/ OpenManualEdit
    \/ CloseManualEdit
    \/ handleAddText
    \/ handleAddVisual
    \/ handleRemoveBlock
    \/ handleTextChange
    \/ EditorAIClick
    \/ EditorAIOk

SpecBlocks == Init /\ [][NextBlocks]_vars

\* Export of a deck whose slides are edited in the edit modal and saved
\* from the manual editor.
NextExport ==
    \/ GetSlidesLoaded
    \/ handleEditSlide
    \/ ContentChange
    \/ OpenManualEdit
    \/ handleTextChange
    \/ ManualSave
    \/ ManualSaveRejected
    \/ handleExport
    \/ ExportOk
    \/ ExportFail

SpecExport == Init /\ [][NextExport]_vars

\* Media uploads on the slides of a generated deck, with the saves of the
\* edit modal and reloads of the page between them.
NextMedia ==
    \/ OpenAIModal
    \/ handleAIGenerate
    \/ AIGenerateOk
    \/ handleEditSlide
    \/ handleFileChange
    \/ SaveChanges
    \/ Reload
    \/ GetSlidesLoaded

SpecMedia == Init /\ [][NextMedia]_vars

\* The manual editor opened on a slide restored from sessionStorage, whose
\* blocks get the default layout; blocks are removed, added and edited.
\* The answer to /get-slides is still outstanding.
NextLayout ==
    \/ handleEditSlide
    \/ OpenManualEdit
    \/ CloseManualEdit
    \/ handleRemoveBlock
    \/ handleAddText
    \/ handleAddVisual
    \/ handleTextChange

SpecLayout == InitRestored /\ [][NextLayout]_vars

\* Analyses in flight at once: Show AI Feedback and the save of the manual
\* editor after blocks were removed there, on a deck restored from
\* sessionStorage.  The deck changes only through the manual editor's
\* save, which is followed by its analysis.
NextTwoAnalyses ==
    \/ handleEditSlide
    \/ OpenManualEdit
    \/ handleRemoveBlock
    \/ ManualSave
    \/ ManualSaveStored
    \/ handleShowAIFeedback
    \/ AnalysisOk
    \/ AnalysisFail

\* The restored deck has no charts.
InitRestoredText == InitRestored /\ slides[1].visuals = << >>

SpecTwoAnalyses == InitRestoredText /\ [][NextTwoAnalyses]_vars

\* Suggestions applied on the slides of a generated deck, every request
\* answered with success.
NextClick ==
    \/ OpenAIModal
    \/ handleAIGenerate
    \/ AIGenerateOk
    \/ handleEditSlide
    \/ fetchAISuggestions
    \/ FetchContentOk
    \/ FetchDesignOk
    \/ handleSuggestionClick
    \/ ReplacementOk

SpecClick == Init /\ [][NextClick]_vars

\* The calls that raise a loading flag: the deck generation (loading), the
\* analysis (analysisLoading) and the AI buttons of the manual editor
\* (aiLoading).
NextLoading ==
    \/ OpenAIModal
    \/ handleAIGenerate
    \/ AIGenerateOk
    \/ AIGenerateFail
    \/ handleEditSlide
    \/ handleShowAIFeedback
    \/ AnalysisOk
    \/ AnalysisFail
    \/ OpenManualEdit
    \/ EditorAIClick
    \/ EditorAIOk
    \/ EditorAIFail

\* Every request that reaches the backend is answered or fails: the
\* continuation of a handler that waits runs eventually.
FairLoading ==
    /\ WF_vars(AIGenerateOk \/ AIGenerateFail)
    /\ WF_vars(AnalysisOk \/ AnalysisFail)
    /\ WF_vars(EditorAIOk \/ EditorAIFail)

SpecLoading == Init /\ [][NextLoading]_vars /\ FairLoading

\* ------------------------------------------------------------------
\* Claims: derived fields
\* ------------------------------------------------------------------

\* The contents that the save paths of the code derive from a list of
\* blocks: the blank-line join of all Text blocks, the join of the edit
\* modal's Save Changes, and the manual editor's join that skips the
\* title block.
DerivedContents(blocks) ==
    { Join(TextContents(blocks), <<NL, NL>>),
      Trim(SaveContentLoop(blocks, EmptyStr)),
      IF TextContents(blocks) = << >> THEN EmptyStr
      ELSE Join(Tail(TextContents(blocks)), <<NL, NL>>) }

\* C1: in every reachable state, a slide whose blocks list is non-empty has
\* a content that is derived from its Text blocks and visuals equal to its
\* Visual-block payloads; no operation writes the content of such a slide
\* directly.
C1_DerivedFieldsFollowBlocks ==
    \A i \in 1..Len(slides) :
        slides[i].blocks # << >> =>
            /\ slides[i].content \in DerivedContents(slides[i].blocks)
            /\ slides[i].visuals = VisualPayloads(slides[i].blocks)

\* C2: the edit modal's Save Changes on a slide whose blocks list is empty
\* leaves the slide's content and visuals as they were.
C2_EmptyBlocksSaveKeepsContent ==
    [][(SaveChanges /\ slides[selectedSlide].blocks = << >>) =>
           /\ slides'[selectedSlide].content = slides[selectedSlide].content
           /\ slides'[selectedSlide].visuals = slides[selectedSlide].visuals]_vars

\* C3: right after a save (the edit modal's Save Changes, the manual
\* editor's onSave) of a slide with non-empty blocks, the slide's content is
\* the blank-line join of the contents of all its Text blocks in block order
\* and its visuals are its Visual-block payloads in block order.
C3_SaveMaterializesBlocks ==
    (/\ last \in {Step("saveChanges", ""), Step("manualSave", "")}
     /\ SelectedOk
     /\ slides[selectedSlide].blocks # << >>) =>
        /\ slides[selectedSlide].content =
               Join(TextContents(slides[selectedSlide].blocks), <<NL, NL>>)
        /\ slides[selectedSlide].visuals =
               VisualPayloads(slides[selectedSlide].blocks)

\* ------------------------------------------------------------------
\* Claims: change tracking and the analysis snapshot
\* ------------------------------------------------------------------

\* The analysis requests a step issues.
IssuedAnalyses == { r \in pending' \ pending : r.kind = "analysis" }

\* The analysis request whose successful response a step processes with
\* the feedback and the fingerprint recorded.
Recorded(r) ==
    /\ r \in pending
    /\ r.kind = "analysis"
    /\ r \notin pending'
    /\ last' = Step("updateAIAnalysis", "recorded")

\* C4: handleShowAIFeedback issues no analysis call exactly when the
\* fingerprint of the current deck equals the recorded fingerprint and a
\* feedback string is present; in every other case it issues one analysis
\* call, for the current deck, with feedback requested.
C4_FeedbackFromCacheOrOneCall ==
    [][last'.op = "handleShowAIFeedback" =>
          IF /\ generateSlidesHash(slides) = lastFeedbackSlidesHash
             /\ aiFeedback # EmptyStr
          THEN pending' = pending
          ELSE /\ Cardinality(IssuedAnalyses) = 1
               /\ pending' \ pending = IssuedAnalyses
               /\ pending \subseteq pending'
               /\ \A r \in IssuedAnalyses :
                      r.fb /\ r.text = generateSlidesHash(slides)]_vars

\* C4 witness: the feedback of an analysed, unchanged deck was shown from
\* the cache.
C4_Witness ==
    /\ last = Step("handleShowAIFeedback", "cached")
    /\ slides # << >>
    /\ aiFeedback = <<"good">>
    /\ pending = {}

\* C5: when an analysis succeeds, the recorded fingerprint is the
\* fingerprint the deck had when the request was issued; if the deck was
\* changed while the request was in flight, hasSlidesChanged() is true
\* once the response is processed.
C5_RecordsIssueTimeFingerprint ==
    [][\A r \in pending :
          Recorded(r) =>
              /\ lastFeedbackSlidesHash' = r.text
              /\ generateSlidesHash(slides') # r.text =>
                     generateSlidesHash(slides') # lastFeedbackSlidesHash']_vars

\* C6: score, ratings, feedback and recorded fingerprint change only in
\* the step that processes a successful analysis response.
C6_SnapshotOnlyFromSuccess ==
    [][(last'.op = "updateAIAnalysis" /\ last'.info \in {"recorded", "ok"})
           \/ UNCHANGED <<metrics, aiFeedback, lastFeedbackSlidesHash>>]_vars

\* C7: hasSlidesChanged() is false right after the response of a successful
\* analysis of the current deck is processed and its fingerprint recorded,
\* and from there a step that changes the title, content or design of a
\* slide makes it true.
C7_ChangedExactlyAfterEdit ==
    [][/\ \A r \in pending :
             (Recorded(r) /\ r.text = generateSlidesHash(slides')) =>
                 generateSlidesHash(slides') = lastFeedbackSlidesHash'
       /\ (/\ generateSlidesHash(slides) = lastFeedbackSlidesHash
           /\ lastFeedbackSlidesHash' = lastFeedbackSlidesHash
           /\ HashedFields(slides') # HashedFields(slides)) =>
              generateSlidesHash(slides') # lastFeedbackSlidesHash']_vars

\* ------------------------------------------------------------------
\* Claims: suggestions
\* ------------------------------------------------------------------

\* The step is one in which fetchAISuggestions ends with a rejection.
FetchRejected == last'.op = "fetchAISuggestions"
                 /\ last'.info \in {"contentFailed", "designFailed"}

\* The ordered pair [Content suggestion, Design suggestion].
CompletePair(list) ==
    /\ Len(list) = 2
    /\ list[1].type = "Content"
    /\ list[2].type = "Design"

\* C8: when either request of fetchAISuggestions fails, the call ends with
\* a rejection and the suggestion list keeps its value; the call writes
\* the list only in the step that ends it successfully, and then it
\* writes the complete pair [Content, Design]; the list never holds a
\* single element.
C8_SuggestionListAllOrNothing ==
    [][/\ \A r \in pending :
             (r.kind = "fetchAISuggestions" /\ last'.op = "fetchAISuggestions"
                 /\ r \notin pending' /\ last'.info # "content") =>
                 \/ FetchRejected /\ aiSuggestions' = aiSuggestions
                 \/ /\ last'.info = "ok"
                    /\ CompletePair(aiSuggestions')
                    /\ aiSuggestions'[1].text = r.text
       /\ (last'.op = "fetchAISuggestions" /\ last'.info # "ok") =>
              aiSuggestions' = aiSuggestions
       /\ Len(aiSuggestions') # 1]_vars

\* C8 witness: the Design request failed after the Content request had
\* succeeded, and the list fetched before is still in place.
C8_Witness ==
    /\ last = Step("fetchAISuggestions", "designFailed")
    /\ CompletePair(aiSuggestions)

\* C9: every suggestion of the visible list was fetched for the slide that
\* is active now.
C9_SuggestionsOfActiveSlide ==
    \A i \in 1..Len(aiSuggestions) : aiSuggestions[i].forSlide = selectedSlide

\* The visual keywords of the claim, as lexemes.
VisualKeywords ==
    { "pie chart", "Pie Chart", "bar chart", "bar graph", "line chart",
      "line graph", "scatter plot", "scatterplot", "scatter chart",
      "scatterchart", "table", "notable" }

\* C10: handleSuggestionClick appends the suggestion text to the slide's
\* content when the text holds a visual keyword, whatever the suggestion's
\* kind; otherwise a Content suggestion is appended to content and design
\* stays, and a Design suggestion is appended to design and content stays.
C10_SuggestionAppliedToField ==
    [][(last'.op = "handleSuggestionClick" /\ pending' # pending
            /\ last'.info \in {"visual", "Content", "Design"}) =>
          \E r \in pending' \ pending :
              LET suggestion == aiSuggestions[r.slot]
                  old == slides[selectedSlide]
                  new == slides'[selectedSlide]
                  toContent ==
                      \/ \E k \in 1..Len(suggestion.text) :
                             suggestion.text[k] \in VisualKeywords
                      \/ suggestion.type = "Content"
              IN  /\ r.kind = "replace"
                  /\ r.typ = suggestion.type
                  /\ IF toContent
                     THEN /\ new.content = old.content \o <<NL>> \o suggestion.text
                          /\ new.design = old.design
                     ELSE /\ new.design = old.design \o <<NL>> \o suggestion.text
                          /\ new.content = old.content]_vars

\* C10 witness: a Design suggestion that names a pie chart was applied, and
\* its text is at the end of the slide's content.
C10_Witness ==
    /\ last = Step("handleSuggestionClick", "visual")
    /\ SelectedOk
    /\ \E r \in pending : r.kind = "replace" /\ r.typ = "Design"
    /\ slides[selectedSlide].content = <<"a", NL, "pie chart">>
    /\ slides[selectedSlide].design = EmptyStr

\* The replacement requests in flight for slot idx of the list.
ReplacementsInFlight(reqs, idx) == { r \in reqs : r.kind = "replace" /\ r.slot = idx }

\* C11: a click on a Content suggestion with text B on a slide with content
\* A leaves content A + '\n' + B; a second click on the same slot before
\* its replacement has arrived (the slot still holds B, the content ends
\* with B) appends B once more, A + '\n' + B + '\n' + B: nothing is
\* deduplicated.
C11_ContentApplyAppendsEachTime ==
    [][(last'.op = "handleSuggestionClick" /\ pending' # pending
            /\ last'.info \in {"visual", "Content", "Design"}) =>
          \A r \in pending' \ pending :
              LET suggestion == aiSuggestions[r.slot]
                  A == slides[selectedSlide].content
                  B == suggestion.text
              IN  suggestion.type = "Content" =>
                      /\ slides'[selectedSlide].content = A \o <<NL>> \o B
                      /\ Len(slides'[selectedSlide].content) = Len(A) + 1 + Len(B)
                      /\ ReplacementsInFlight(pending, r.slot) # {} =>
                             Cardinality(ReplacementsInFlight(pending', r.slot)) =
                                 Cardinality(ReplacementsInFlight(pending, r.slot)) + 1]_vars

\* C11 witness: the Content suggestion "s" was applied twice to a slide
\* with empty content, the second time while the replacement of the first
\* click was in flight; the content holds the text twice.
C11_Witness ==
    /\ last = Step("handleSuggestionClick", "Content")
    /\ SelectedOk
    /\ Cardinality(ReplacementsInFlight(pending, 1)) = 2
    /\ Len(aiSuggestions) = 2
    /\ aiSuggestions[1].text = <<"s">>
    /\ slides[selectedSlide].content = <<NL, "s", NL, "s">>

\* The step processes the answer to replacement request r.
Replaced(r) ==
    /\ r \in pending
    /\ r.kind = "replace"
    /\ r \notin pending'
    /\ last'.op = "handleSuggestionClick"
    /\ last'.info \in {"replacedContent", "replacedDesign"}

\* C12: a click on the suggestion in slot k issues exactly one request, a
\* replacement for slot k of the suggestion's kind; the step that processes
\* its answer changes slot k only, to a suggestion of that kind, and leaves
\* every other slot and the length of the list as they are, whatever other
\* replacements are in flight.
C12_ReplacementTouchesOneSlot ==
    [][/\ (last'.op = "handleSuggestionClick"
            /\ last'.info \in {"visual", "Content", "Design"}) =>
              /\ pending \subseteq pending'
              /\ Cardinality(pending' \ pending) = 1
              /\ \A r \in pending' \ pending :
                     /\ r.kind = "replace"
                     /\ r.slot \in 1..Len(aiSuggestions)
                     /\ r.typ = aiSuggestions[r.slot].type
              /\ aiSuggestions' = aiSuggestions
       /\ \A r \in pending :
              Replaced(r) =>
                  /\ pending' = pending \ {r}
                  /\ Len(aiSuggestions') = Len(aiSuggestions)
                  /\ \A i \in 1..Len(aiSuggestions) :
                         IF i = r.slot
                         THEN /\ aiSuggestions'[i].type = r.typ
                              /\ aiSuggestions'[i].type = aiSuggestions[i].type
                         ELSE aiSuggestions'[i] = aiSuggestions[i]]_vars

\* C12 witness: the replacements of a Content click and of a Design click
\* were in flight together; the Design one was answered first and the
\* Content one is still in flight.
C12_Witness ==
    /\ last = Step("handleSuggestionClick", "replacedDesign")
    /\ Cardinality({ r \in pending : r.kind = "replace" /\ r.typ = "Content" }) = 1
    /\ CompletePair(aiSuggestions)

\* ------------------------------------------------------------------
\* Claims: the fingerprint
\* ------------------------------------------------------------------

\* Block lists and visuals lists that a deck of the same titles, contents
\* and designs may carry.
OtherBlocks ==
    { << >>,
      << TextBlock(<<"text", 1>>, <<"x">>) >>,
      << TextBlock(<<"text", 1>>, <<"x">>),
         VisualBlockContainer(<<"visualr", 1>>, Visual("pie", "ABC")) >> }

OtherVisuals == { << >>, << Visual("pie", "ABC") >>, << Visual("bar", "AB") >> }

\* The deck with blocks and visuals of slide i replaced.
WithBlocksAndVisuals(deck, i, blocks, visuals) ==
    [deck EXCEPT ![i].blocks = blocks, ![i].visuals = visuals]

\* C13: the fingerprint is a function of the sequence of (title, content,
\* design): a deck that differs from the current one in blocks and visuals
\* only has the same fingerprint and the same hasSlidesChanged() answer; a
\* deck whose sequence is again the one an analysis was issued for has
\* again the fingerprint computed then; and when the recorded fingerprint
\* is the one of the current sequence, hasSlidesChanged() is false.
C13_FingerprintOfTitleContentDesign ==
    /\ generateSlidesHash(slides) = generateSlidesHash(HashedFields(slides))
    /\ \A i \in 1..Len(slides), blocks \in OtherBlocks, visuals \in OtherVisuals :
           LET other == WithBlocksAndVisuals(slides, i, blocks, visuals)
           IN  /\ generateSlidesHash(other) = generateSlidesHash(slides)
               /\ (generateSlidesHash(other) # lastFeedbackSlidesHash)
                      = hasSlidesChanged
    /\ \A r \in pending :
           (r.kind = "analysis" /\ r.snap = HashedFields(slides)) =>
               generateSlidesHash(slides) = r.text
    /\ lastFeedbackSlidesHash = generateSlidesHash(HashedFields(slides)) =>
           ~hasSlidesChanged

\* C13 witness: after an analysis was recorded the design was changed and
\* changed back, and hasSlidesChanged() is false again.
C13_Witness ==
    /\ last = Step("designChange", "")
    /\ aiFeedback = <<"good">>
    /\ slides # << >>
    /\ ~hasSlidesChanged

\* Values of a title, content or design that hold the separators of the
\* fingerprint.
SeparatorStrings ==
    { <<"a">>, <<":">>, <<"|">>, <<"a", ":">>, <<":", "a">>, <<"a", "|", "a">> }

\* Exactly one of title, content and design of exactly one slide differs
\* between the decks d and e; blocks and visuals are the same.
OneFieldChanged(d, e) ==
    /\ Len(d) = Len(e)
    /\ \E i \in 1..Len(d) :
           /\ \A j \in 1..Len(d) : j # i => d[j] = e[j]
           /\ d[i].blocks = e[i].blocks
           /\ d[i].visuals = e[i].visuals
           /\ Cardinality({ f \in {"title", "content", "design"} :
                                d[i][f] # e[i][f] }) = 1

\* C14: a step that changes the title, the content or the design of one
\* slide and nothing else of the deck changes the fingerprint; and the
\* fingerprint of the current deck differs from that of every deck that
\* differs from it in one such field of one slide, separators in the
\* values included.
C14_FieldChangeChangesFingerprint ==
    [][/\ OneFieldChanged(slides, slides') =>
              generateSlidesHash(slides') # generateSlidesHash(slides)
       /\ \A i \in 1..Len(slides), f \in {"title", "content", "design"},
             v \in SeparatorStrings :
              v # slides[i][f] =>
                  generateSlidesHash([slides EXCEPT ![i][f] = v])
                      # generateSlidesHash(slides)]_vars

\* C14 witness: after an analysis was recorded the design of a slide was
\* changed, and hasSlidesChanged() is true.
C14_Witness ==
    /\ last = Step("designChange", "")
    /\ aiFeedback = <<"good">>
    /\ lastFeedbackSlidesHash # EmptyStr
    /\ slides # << >>
    /\ hasSlidesChanged

\* ------------------------------------------------------------------
\* Claims: the design pass of the bulk generation
\* ------------------------------------------------------------------

\* The step ends the iteration of the design loop that request r belongs to.
DesignAnswered(r, info) ==
    /\ r \in pending
    /\ r.kind = "design"
    /\ r \notin pending'
    /\ last' = Step("handleGenerateSlides", info)

\* The design requests in flight.
DesignRequests(reqs) == { r \in reqs : r.kind = "design" }

\* C16: when the design request of a slide fails or is answered with a
\* non-success response, the deck is left as it is (the slide's design and
\* the designs applied to earlier slides included), no error is set, and
\* the design of the next slide of the generated deck is requested; after
\* the last slide the handler ends and lowers `loading`.
C16_DesignFailureIsIsolated ==
    [][\A r \in pending :
          DesignAnswered(r, "designFailed") =>
              /\ slides' = slides
              /\ error' = error
              /\ IF r.slide < Len(r.snap)
                 THEN /\ DesignRequests(pending') =
                            { [r EXCEPT !.slide = r.slide + 1] }
                      /\ loading'
                 ELSE /\ DesignRequests(pending') = {}
                      /\ ~loading']_vars

\* C16 witness: the design of the first slide was applied, the design
\* request of the second slide failed, and the pass is over.
C16_Witness ==
    /\ last = Step("handleGenerateSlides", "designFailed")
    /\ Len(slides) = 2
    /\ slides[1].design = <<"g">>
    /\ slides[2].design = EmptyStr
    /\ DesignRequests(pending) = {}
    /\ ~loading
    /\ error = "null"

\* C17: the step that applies the design result for slide S of the
\* generated deck changes the design of S and nothing else: the title,
\* content, blocks and visuals of S and every other slide are as they were
\* just before the step.
C17_DesignResultTouchesOneField ==
    [][\A r \in pending :
          DesignAnswered(r, "designApplied") =>
              /\ Len(slides') = Len(slides)
              /\ \A i \in 1..Len(slides) :
                     IF i = r.slide
                     THEN slides'[i] = [slides[i] EXCEPT !.design = slides'[i].design]
                     ELSE slides'[i] = slides[i]]_vars

\* ------------------------------------------------------------------
\* Claims: loading flags
\* ------------------------------------------------------------------

\* The feedback text that a failed analysis leaves.
FailedFeedback == <<"Failed to generate feedback. Please try again.">>

C18_ReloadKeepsSavedSlides ==
    [][(last.op = "reload" /\ slides # << >> /\ last'.op = "getSlides")
          => slides' = slides]_vars

\* ------------------------------------------------------------------
\* Claims: the blocks of the manual editor
\* ------------------------------------------------------------------

\* Ids a block can carry, among them ids that no block of the editor has.
BlockIds ==
    { <<"text", 1>>, <<"text", 2>>, <<"text", 3>>, <<"visual", 0>>,
      <<"visualr", 1>>, <<"visualt", 1>>, <<"none", 0>> }

LayoutIds(layout) == { layout[i].i : i \in 1..Len(layout) }

\* C19: removing a block by an id that no block has leaves the block list
\* unchanged, and the layout list likewise when no layout entry has the
\* id; so removing an id a second time changes nothing more than removing
\* it once, both for any id and for the id handleRemoveBlock just removed.
C19_RemoveAbsentBlockIsNoOp ==
    /\ [](\A id \in BlockIds :
            /\ id \notin IdsOf(edBlocks) => RemoveBlock(edBlocks, id) = edBlocks
            /\ id \notin LayoutIds(edLayout) => RemoveLayout(edLayout, id) = edLayout
            /\ RemoveBlock(RemoveBlock(edBlocks, id), id) = RemoveBlock(edBlocks, id)
            /\ RemoveLayout(RemoveLayout(edLayout, id), id) = RemoveLayout(edLayout, id))
    /\ [][last'.op = "handleRemoveBlock" =>
             \E idx \in 1..Len(edBlocks) :
                 /\ edBlocks' = RemoveBlock(edBlocks, edBlocks[idx].id)
                 /\ edLayout' = RemoveLayout(edLayout, edBlocks[idx].id)
                 /\ edBlocks[idx].id \notin IdsOf(edBlocks')
                 /\ RemoveBlock(edBlocks', edBlocks[idx].id) = edBlocks'
                 /\ RemoveLayout(edLayout', edBlocks[idx].id) = edLayout']_vars

\* C19 witness: handleRemoveBlock has removed the content block; one block
\* and one layout entry are left, and the removed id is absent from both.
C19_Witness ==
    /\ last.op = "handleRemoveBlock"
    /\ Len(edBlocks) = 1
    /\ Len(edLayout) = 1
    /\ <<"text", 2>> \notin IdsOf(edBlocks)
    /\ <<"text", 2>> \notin LayoutIds(edLayout)
    /\ RemoveBlock(edBlocks, <<"text", 2>>) = edBlocks

\* Contents written into a block.
BlockContents == { EmptyStr, <<"z">> }

\* `new` is `old` with the content of block idx set to newContent when that
\* block is a text block, and is `old` when it is a visual block: same
\* length, same order, every other block and every other field untouched.
OnlyBlockContent(old, new, idx, newContent) ==
    /\ Len(new) = Len(old)
    /\ \A i \in 1..Len(old) : i # idx => new[i] = old[i]
    /\ new[idx].id = old[idx].id
    /\ new[idx].type = old[idx].type
    /\ IsText(old[idx]) => new[idx] = [old[idx] EXCEPT !.content = newContent]
    /\ ~IsText(old[idx]) => new = old

AppendsTextBlock(old, new, content) ==
    /\ Len(new) = Len(old) + 1
    /\ SubSeq(new, 1, Len(old)) = old
    /\ IsText(new[Len(new)])
    /\ new[Len(new)].content = content
    /\ new[Len(new)].id \notin IdsOf(old)

\* C21: adding a text block (handleAddText of the manual editor,
\* handleAddTextBlock of ManualSlideEditor) appends exactly one new text
\* block with empty content at the end of the block list, with its layout
\* entry after every existing one, and leaves the existing blocks unchanged.
C21_AddTextAppendsEmptyBlock ==
    /\ [](Len(edBlocks) < MaxBlocks =>
              AppendsTextBlock(edBlocks, handleAddTextBlock(edBlocks), EmptyStr))
    /\ [][last'.op = "handleAddText" =>
             /\ AppendsTextBlock(edBlocks, edBlocks', EmptyStr)
             /\ Len(edLayout') = Len(edLayout) + 1
             /\ SubSeq(edLayout', 1, Len(edLayout)) = edLayout
             /\ edLayout'[Len(edLayout')].i = edBlocks'[Len(edBlocks')].id
             /\ edLayout'[Len(edLayout')].y = Infinity]_vars

\* ------------------------------------------------------------------
\* Claims: export
\* ------------------------------------------------------------------

\* The export requests a step issues.
IssuedExports == { r \in pending' \ pending : r.kind = "export" }

\* C22: an export sends exactly one {title, content} pair per slide, in
\* deck order, with no blocks or visuals, and for a slide with non-empty
\* blocks the content sent is a content materialized from those blocks.
C22_ExportSendsMaterializedContent ==
    [][\A r \in IssuedExports :
          /\ Len(r.snap) = Len(slides)
          /\ \A i \in 1..Len(slides) :
                 /\ DOMAIN r.snap[i] = {"title", "content"}
                 /\ r.snap[i].title = slides[i].title
                 /\ slides[i].blocks = << >> => r.snap[i].content = slides[i].content
                 /\ slides[i].blocks # << >> =>
                        r.snap[i].content \in DerivedContents(slides[i].blocks)]_vars

\* ------------------------------------------------------------------
\* Claims: media
\* ------------------------------------------------------------------

\* C23: no slide has both imageUrl and videoUrl set.  The upload of an
\* image sets imageUrl and clears videoUrl, the upload of a video sets
\* videoUrl and clears imageUrl, a file of another type changes neither;
\* every other field of the slide and every other slide stay as they were.
C23_AtMostOneMediaUrl ==
    /\ [](\A i \in 1..Len(slides) :
             slides[i].imageUrl = NoUrl \/ slides[i].videoUrl = NoUrl)
    /\ [][last'.op = "handleFileChange" =>
             /\ Len(slides') = Len(slides)
             /\ \A i \in 1..Len(slides) :
                    i # selectedSlide => slides'[i] = slides[i]
             /\ [slides'[selectedSlide] EXCEPT !.imageUrl = NoUrl, !.videoUrl = NoUrl]
                    = [slides[selectedSlide] EXCEPT !.imageUrl = NoUrl, !.videoUrl = NoUrl]
             /\ last'.info = "image" =>
                    /\ slides'[selectedSlide].imageUrl # NoUrl
                    /\ slides'[selectedSlide].videoUrl = NoUrl
             /\ last'.info = "video" =>
                    /\ slides'[selectedSlide].videoUrl # NoUrl
                    /\ slides'[selectedSlide].imageUrl = NoUrl
             /\ last'.info = "other" => slides' = slides]_vars

\* C23 witness: a video was uploaded on slide 2, which carries the video
\* and no image, while slide 1 keeps the image uploaded on it.
C23_Witness ==
    /\ last = Step("handleFileChange", "video")
    /\ selectedSlide = 2
    /\ Len(slides) >= 2
    /\ slides[2].videoUrl = "blob:2"
    /\ slides[2].imageUrl = NoUrl
    /\ slides[1].imageUrl = "blob:1"

\* ------------------------------------------------------------------
\* Claims: the default layout
\* ------------------------------------------------------------------

\* Two layout entries share a cell of the grid.
Overlap(a, b) ==
    /\ a.x < b.x + b.w
    /\ b.x < a.x + a.w
    /\ a.y < b.y + b.h
    /\ b.y < a.y + a.h

\* `layout` is the two-column grid for `blocks`: one entry per block with
\* the block's id, entry k (from 0) in column k mod 2 and row floor(k / 2),
\* one span for all, inside the 12 columns, no two entries overlapping.
TwoColumnGrid(blocks, layout) ==
    /\ Len(layout) = Len(blocks)
    /\ \A k \in 1..Len(blocks) :
           /\ layout[k].i = blocks[k].id
           /\ layout[k].w = layout[1].w /\ layout[k].h = layout[1].h
           /\ 2 * layout[k].w = 12
           /\ layout[k].x = ((k - 1) % 2) * layout[k].w
           /\ layout[k].y = ((k - 1) \div 2) * layout[k].h
           /\ \A j \in 1..(k - 1) : ~Overlap(layout[j], layout[k])

\* C24: getDefaultLayout returns one layout entry per block, carrying the
\* block's id, with block i at column i mod 2 and row floor(i / 2) of a
\* two-column grid and the same spans for every block, so no two entries
\* overlap; this is the layout the manual editor starts with.
C24_DefaultLayoutIsTwoColumnGrid ==
    /\ [](/\ TwoColumnGrid(edBlocks, getDefaultLayout(edBlocks))
          /\ \A k \in 1..Len(slides) :
                 TwoColumnGrid(EditorSlideBlocks(slides[k]),
                               getDefaultLayout(EditorSlideBlocks(slides[k]))))
    /\ [][last'.op = "openManualEdit" => TwoColumnGrid(edBlocks', edLayout')]_vars

\* C24 witness: the manual editor has opened on a slide with five blocks;
\* the fourth is in column 1 of row 1, the fifth in column 0 of row 2.
C24_Witness ==
    /\ last.op = "openManualEdit"
    /\ Len(edLayout) = 5
    /\ edLayout[4].x = 6 /\ edLayout[4].y = 4
    /\ edLayout[5].x = 0 /\ edLayout[5].y = 8

\* ------------------------------------------------------------------
\* Claims: cached feedback
\* ------------------------------------------------------------------

\* The feedback texts and the metrics that a successful analysis returns.
ReturnedFeedback == { data.feedback : data \in AnalysisResponses } \ {EmptyStr}

ReturnedMetrics ==
    { [score |-> data.score, narrative_flow |-> data.narrative_flow,
       visual_design |-> data.visual_design,
       data_credibility |-> data.data_credibility] : data \in AnalysisResponses }

\* C25: when handleShowAIFeedback shows feedback without an analysis call,
\* the feedback text and the metrics shown are ones a successful analysis
\* returned: never the failure message and never the reset metrics that a
\* failed analysis leaves.
C25_CachedFeedbackIsFromSuccess ==
    [][last' = Step("handleShowAIFeedback", "cached") =>
          /\ aiFeedback' \in ReturnedFeedback
          /\ metrics' \in ReturnedMetrics]_vars

\* ------------------------------------------------------------------
\* Claims: analyses in flight at once
\* ------------------------------------------------------------------

\* The requests of an analysis that is not finished: the analysis
\* requests, and the /save-slides requests whose answer starts one.
Outstanding(reqs) == { r \in reqs : r.kind \in {"analysis", "saveSlides"} }

\* C26: when the analyses in flight have all completed, the recorded
\* fingerprint (with the feedback and the metrics) is that of the request
\* issued last, whichever response arrived first.  Where every change of
\* the deck is followed by an analysis of the changed deck, the request
\* issued last is one for the current deck: when the last response to
\* arrive is recorded, the recorded fingerprint is the current deck's.
C26_LastIssuedAnalysisWins ==
    [][((\E r \in pending : Recorded(r)) /\ Outstanding(pending') = {}) =>
           lastFeedbackSlidesHash' = generateSlidesHash(slides')]_vars

\* ------------------------------------------------------------------
\* Claims: the title on a save from the manual editor
\* ------------------------------------------------------------------

\* The title block the editor created on open, <<"text", 1>>, was removed
\* or still holds the slide's title: the user did not edit its text.
TitleBlockNotEdited ==
    \A i \in 1..Len(edBlocks) :
        edBlocks[i].id = <<"text", 1>> =>
            edBlocks[i].content = slides[selectedSlide].title

\* C27: a save from the manual editor changes the slide's title only when
\* the user edited the text of the title block the editor created on open;
\* after removing blocks, with that text unedited, the title stays.
C27_SaveKeepsUneditedTitle ==
    [][(last' = Step("manualSave", "") /\ ManualOpen /\ TitleBlockNotEdited) =>
           slides'[selectedSlide].title = slides[selectedSlide].title]_vars

\* ------------------------------------------------------------------
\* Claims: the frame of handleSuggestionClick
\* ------------------------------------------------------------------

\* A slide without its content and its design.
OtherFields(slide) == [slide EXCEPT !.content = EmptyStr, !.design = EmptyStr]

Retyped(i, c, d) == [slides EXCEPT ![i].content = c, ![i].design = d]

\* C29: two decks whose sequences of (title, content, design) differ never
\* have the same fingerprint, also when the values hold ':' or '|': any two
\* decks that come from the current one by typing different contents and
\* designs into one slide have different fingerprints.
C29_FingerprintIsInjective ==
    \A i \in 1..Len(slides) :
        \A c1 \in SeparatorStrings, d1 \in SeparatorStrings,
           c2 \in SeparatorStrings, d2 \in SeparatorStrings :
            <<c1, d1>> # <<c2, d2>> =>
                generateSlidesHash(Retyped(i, c1, d1))
                    # generateSlidesHash(Retyped(i, c2, d2))

\* ------------------------------------------------------------------
\* Claims: the slides of the bulk generation
\* ------------------------------------------------------------------

\* C30: every slide that handleGenerateSlides stores has at least one text
\* block, and its content is the contents of its text blocks joined by a
\* blank line, whatever items /generate-slides returned.
C30_GeneratedSlidesMatchTheirBlocks ==
    last = Step("handleGenerateSlides", "generated") =>
        \A i \in 1..Len(slides) :
            /\ \E k \in 1..Len(slides[i].blocks) : IsText(slides[i].blocks[k])
            /\ slides[i].content
                   = Join(TextContents(slides[i].blocks), <<NL, NL>>)

\* handleGenerateSlides stored a deck in which one slide has two text blocks
\* and a content made of both, and another slide got no content and has the
\* one empty text block.
C30_Witness ==
    /\ last = Step("handleGenerateSlides", "generated")
    /\ \E i \in 1..Len(slides) :
           /\ Len(slides[i].blocks) = 2
           /\ slides[i].content = <<"a", NL, NL, "b">>
    /\ \E j \in 1..Len(slides) :
           /\ Len(slides[j].blocks) = 1
           /\ slides[j].blocks[1].content = EmptyStr
           /\ slides[j].content = EmptyStr

====
